---- MODULE Spec2Model ----
(***************************************************************************)
(* State-machine model of the offline immunization tracker.                *)
(*                                                                         *)
(* The record store (Dexie tables), the in-memory mirror `children`, the   *)
(* unsaved-edit buffer, the two modals and the summary views are the       *)
(* state.  Every async handler is a task: its synchronous prefix is one    *)
(* action, and every `await` on the store is one further action in which   *)
(* the awaited store operation takes effect (or fails) and the code up to  *)
(* the next await runs.  Handlers interleave only at their awaits.  The     *)
(* store runs operations whose tables overlap, one of them writing, in the *)
(* order they were issued (IndexedDB transaction ordering); operations on  *)
(* disjoint tables, and reads of the same table, complete in any order.    *)
(*                                                                         *)
(* Dates are day numbers (0 is the empty string), instants are ticks with  *)
(* TicksPerDay ticks per day; `new Date("YYYY-MM-DD")` is midnight of that *)
(* day, tick day * TicksPerDay.                                            *)
(***************************************************************************)
EXTENDS Integers, Sequences, FiniteSets, TLC

(***************************************************************************)
(* Bounds of the model.                                                    *)
(***************************************************************************)
NumVaccines == 2     \* how many entries of vaccinationSchedule are modelled
MaxTasks == 2        \* async handlers that may be in flight together
SaveRegs == 1        \* SpecSave: registrations accepted in a run
SaveSaves == 2       \* SpecSave: saveImmunization calls that pass validation
SaveFailures == 1    \* SpecSave: storage operations that fail
ReadSaves == 2       \* SpecRead: saveImmunization calls, one after the other
ReadBackups == 1     \* SpecRead: backups taken
DeleteRegs == 2      \* SpecDelete: registrations accepted
DeleteSaves == 1     \* SpecDelete: saveImmunization calls
DeleteDeletes == 2   \* SpecDelete: deleteChild calls confirmed
DeleteFailures == 1  \* SpecDelete: storage operations that fail
RegisterRegs == 3    \* SpecRegister: registrations accepted
RegisterDeletes == 1 \* SpecRegister: deleteChild calls confirmed
RegisterFailures == 1 \* SpecRegister: storage operations that fail
StatsChildren == 2   \* SpecStats: children in the loaded list
RestoreRegs == 1     \* SpecRestore: registrations accepted
RestoreSaves == 1    \* SpecRestore: saveImmunization calls
RestoreBackups == 1  \* SpecRestore: backups taken
RestoreRestores == 1 \* SpecRestore: restores confirmed
RestoreNames == 1    \* SpecRestore: facility names saved
RestoreFailures == 1 \* SpecRestore: storage operations that fail
BufferRegs == 1      \* SpecBuffer: registrations accepted
BufferSaves == 1     \* SpecBuffer: saveImmunization calls
FacilityAccounts == 2 \* SpecFacility: facility registrations that pass validation
FacilityDemos == 1   \* SpecFacility: showDemoLogin calls
FacilityRegs == 1    \* SpecFacility: child registrations accepted
FacilityClears == 1  \* SpecFacility: clearAllData calls confirmed
FacilityFailures == 1 \* SpecFacility: storage operations that fail
RecoveryAccounts == 1 \* SpecRecovery: facility registrations that pass validation
RecoveryDemos == 1   \* SpecRecovery: showDemoLogin calls
RecoveryRestarts == 2 \* SpecRecovery: showForgotPasswordForm calls
RecoveryVerifies == 2 \* SpecRecovery: verifyFacilityForRecovery calls with a code
RecoveryResets == 2  \* SpecRecovery: resetPassword calls that pass validation
RecoveryFailures == 1 \* SpecRecovery: storage operations that fail
PasswordAccounts == 2 \* SpecPassword: facility registrations that pass validation
PasswordDemos == 1   \* SpecPassword: showDemoLogin calls
PasswordVerifies == 1 \* SpecPassword: verifyFacilityForRecovery calls with a code
PasswordResets == 1  \* SpecPassword: resetPassword calls that pass validation
PasswordChanges == 2 \* SpecPassword: changePassword calls that pass validation
PasswordFailures == 1 \* SpecPassword: storage operations that fail
ColdStartFacilities == 2 \* SpecColdStart: facilities that may be stored
ColdStartFailures == 1 \* SpecColdStart: storage operations that fail
BirthRegs == 2       \* SpecBirth: registrations accepted
RegNoChildren == 3   \* SpecRegNo: children in the register at the start
RegNoRegs == 2       \* SpecRegNo: registrations accepted
RegNoFailures == 1   \* SpecRegNo: storage operations that fail
SearchRegs == 2      \* SpecSearch: registrations accepted
SearchDeletes == 1   \* SpecSearch: deleteChild calls confirmed
SearchFailures == 1  \* SpecSearch: storage operations that fail
EditRegs == 2        \* SpecEdit: registrations accepted
EditEdits == 1       \* SpecEdit: saveEditedChild calls
EditDeletes == 1     \* SpecEdit: deleteChild calls confirmed
EditFailures == 1    \* SpecEdit: storage operations that fail
ReuseRegs == 3       \* SpecReuse: registrations accepted
ReuseDeletes == 2    \* SpecReuse: deleteChild calls confirmed
ReuseFailures == 1   \* SpecReuse: storage operations that fail
BirthFailures == 1   \* SpecBirth: storage operations that fail

(***************************************************************************)
(* Time.                                                                   *)
(***************************************************************************)
TicksPerDay == 2
Today == 10
BaseYear == 2026
DaysPerYear == 365

NoDate == 0
GivenDay == Today

\* new Date(dateString).getTime()
DateMs(d) == d * TicksPerDay

\* new Date(instant).getFullYear()
getFullYear(t) == BaseYear + (t \div (TicksPerDay * DaysPerYear))

\* An ISO date string (Date.prototype.toISOString, the form JSON.stringify gives
\* a Date) is the number of its instant raised by IsoBase, so that a string sorts
\* after every Date as IndexedDB keys do.
IsoBase == 1000

\* JSON.parse(JSON.stringify(x)) of a Date or of an ISO string
toJSON(x) == IF x >= IsoBase THEN x ELSE IsoBase + x

\* new Date(x), x a Date or an ISO string
NewDate(x) == IF x >= IsoBase THEN x - IsoBase ELSE x

\* Math.ceil(x / TicksPerDay) and Math.floor(x / TicksPerDay), x any integer
CeilDays(x) == -((-x) \div TicksPerDay)
FloorDays(x) == x \div TicksPerDay

(***************************************************************************)
(* Strings: a string whose characters matter is a sequence of one-         *)
(* character strings.                                                      *)
(***************************************************************************)
DigitChar == <<"0", "1", "2", "3", "4", "5", "6", "7", "8", "9">>

IsDigit(c) == \E i \in 1..10 : DigitChar[i] = c

RECURSIVE ToStr(_)
\* String(n), n >= 0
ToStr(n) == IF n < 10 THEN <<DigitChar[n + 1]>>
            ELSE ToStr(n \div 10) \o <<DigitChar[(n % 10) + 1]>>

RECURSIVE padStart(_, _, _)
\* s.padStart(width, c)
padStart(s, width, c) == IF Len(s) >= width THEN s ELSE padStart(<<c>> \o s, width, c)

\* `${String(count).padStart(3, '0')}/${year}`
RegNoOf(count, year) == padStart(ToStr(count), 3, "0") \o <<"/">> \o ToStr(year)

\* /^\d{3}\/\d{4}$/.test(s)
MatchesRegNoFormat(s) ==
    /\ Len(s) = 8
    /\ \A i \in {1, 2, 3, 5, 6, 7, 8} : IsDigit(s[i])
    /\ s[4] = "/"

Names == {"amy", "Amy", "bob"}

\* name.toLowerCase()
toLowerCase(n) == IF n = "Amy" THEN "amy" ELSE n

(***************************************************************************)
(* The vaccination schedule.                                               *)
(***************************************************************************)
FullSchedule ==
    <<"BCG at Birth", "OPV0 at Birth", "Hepatitis B at Birth", "OPV1 at 6 weeks">>

vaccinationSchedule == SubSeq(FullSchedule, 1, NumVaccines)

Vaccines == {vaccinationSchedule[i] : i \in 1..Len(vaccinationSchedule)}

(***************************************************************************)
(* Sequences and sets.                                                     *)
(***************************************************************************)
Range(s) == {s[i] : i \in DOMAIN s}

RECURSIVE SortById(_)
\* table.toArray(): the records in primary-key order
SortById(S) ==
    IF S = {} THEN <<>>
    ELSE LET m == CHOOSE r \in S : \A q \in S : r.id <= q.id
         IN <<m>> \o SortById(S \ {m})

RECURSIVE NewestFirst(_)
\* db.children.orderBy('createdAt').reverse().toArray()
NewestFirst(S) ==
    IF S = {} THEN <<>>
    ELSE LET m == CHOOSE r \in S :
                     \A q \in S : \/ r.createdAt > q.createdAt
                                  \/ r.createdAt = q.createdAt /\ r.id >= q.id
         IN <<m>> \o NewestFirst(S \ {m})

\* the vaccines of a set in schedule order (the checkboxes are rendered in
\* schedule order and read back with querySelectorAll)
SeqOfSet(S) == SelectSeq(vaccinationSchedule, LAMBDA v : v \in S)

\* array.splice(index, 1), index 0-based
Splice(s, index) ==
    IF index < 0 \/ index >= Len(s) THEN s
    ELSE SubSeq(s, 1, index) \o SubSeq(s, index + 2, Len(s))

\* a dose record without its primary key
Content(v) == [x \in (DOMAIN v) \ {"id"} |-> v[x]]

Contents(S) == {Content(v) : v \in S}

(***************************************************************************)
(* Status engine: the per-dose tests of the summary views.                 *)
(***************************************************************************)
\* v.nextVisit && !v.dateGiven
IsBooked(v) == v.nextVisit # NoDate /\ v.dateGiven = NoDate

\* nextVisitDate < today
IsBefore(d, t) == DateMs(d) < t

\* Math.ceil((nextVisitDate - today) / (1000 * 60 * 60 * 24))
daysUntil(d, t) == CeilDays(DateMs(d) - t)

\* Math.floor((today - nextVisitDate) / (1000 * 60 * 60 * 24))
daysOverdue(d, t) == FloorDays(t - DateMs(d))

\* the filter of updateDefaultersTable
IsMissed(v, t) == IsBooked(v) /\ IsBefore(v.nextVisit, t)

\* the filter of updateDueSoonTable
IsDueSoon(v, t) ==
    IsBooked(v) /\ daysUntil(v.nextVisit, t) > 0 /\ daysUntil(v.nextVisit, t) <= 7

\* the filter of updateUpcomingTable
IsUpcoming(v, t) ==
    IsBooked(v) /\ daysUntil(v.nextVisit, t) > 7 /\ daysUntil(v.nextVisit, t) <= 30

\* the branch of updateStats that sets the flag of a bucket for one dose
StatsQualifies(bucket, v, t) ==
    CASE bucket = "defaulters" -> IsBooked(v) /\ IsBefore(v.nextVisit, t)
      [] bucket = "dueSoon" -> /\ IsBooked(v)
                               /\ ~IsBefore(v.nextVisit, t)
                               /\ daysUntil(v.nextVisit, t) <= 7
      [] bucket = "upcoming" -> /\ IsBooked(v)
                                /\ ~IsBefore(v.nextVisit, t)
                                /\ ~(daysUntil(v.nextVisit, t) <= 7)
                                /\ daysUntil(v.nextVisit, t) <= 30

\* the three flags updateStats computes for one child
StatsFlags(child, t) ==
    LET vs == Range(child.vaccinations)
    IN [isDefaulter |-> \E v \in vs : StatsQualifies("defaulters", v, t),
        isDueSoon |-> \E v \in vs : StatsQualifies("dueSoon", v, t),
        isUpcoming |-> \E v \in vs : StatsQualifies("upcoming", v, t)]

\* updateStats(): the four counters it writes
updateStats(chs, t) ==
    [totalChildren |-> Len(chs),
     totalDefaulters |-> Cardinality({i \in DOMAIN chs : StatsFlags(chs[i], t).isDefaulter}),
     totalDueSoon |-> Cardinality({i \in DOMAIN chs : StatsFlags(chs[i], t).isDueSoon}),
     totalUpcoming |-> Cardinality({i \in DOMAIN chs : StatsFlags(chs[i], t).isUpcoming})]

RECURSIVE ReduceClosest(_, _, _)
\* vs.reduce((prev, current) => prevDate < currentDate ? prev : current)
ReduceClosest(vs, i, prev) ==
    IF i > Len(vs) THEN prev
    ELSE ReduceClosest(vs, i + 1,
                       IF DateMs(prev.nextVisit) < DateMs(vs[i].nextVisit)
                       THEN prev ELSE vs[i])

Qualifies(bucket, v, t) ==
    CASE bucket = "defaulters" -> IsMissed(v, t)
      [] bucket = "dueSoon" -> IsDueSoon(v, t)
      [] bucket = "upcoming" -> IsUpcoming(v, t)

RECURSIVE BucketRows(_, _, _, _, _)
\* the children.forEach loop shared by the three tables: countedChildren is a
\* Set of regNo; a row carries what is rendered, and index is
\* children.indexOf(child) of its Update button
BucketRows(chs, t, bucket, i, countedChildren) ==
    IF i > Len(chs) THEN <<>>
    ELSE LET child == chs[i]
             qualifying == SelectSeq(child.vaccinations,
                                     LAMBDA v : Qualifies(bucket, v, t))
         IN IF child.regNo \in countedChildren \/ qualifying = <<>>
            THEN BucketRows(chs, t, bucket, i + 1, countedChildren)
            ELSE LET featured == ReduceClosest(qualifying, 2, qualifying[1])
                 IN <<[regNo |-> child.regNo,
                       name |-> child.name,
                       vaccine |-> featured.vaccine,
                       nextVisit |-> featured.nextVisit,
                       days |-> IF bucket = "defaulters"
                                THEN daysOverdue(featured.nextVisit, t)
                                ELSE daysUntil(featured.nextVisit, t),
                       index |-> i - 1]>>
                    \o BucketRows(chs, t, bucket, i + 1,
                                  countedChildren \cup {child.regNo})

updateDefaultersTable(chs, t) == BucketRows(chs, t, "defaulters", 1, {})

updateDueSoonTable(chs, t) == BucketRows(chs, t, "dueSoon", 1, {})

updateUpcomingTable(chs, t) == BucketRows(chs, t, "upcoming", 1, {})

\* updateChildTable(filteredChildren): a row shows regNo and name of its child
\* and its three buttons carry the position of the child in filteredChildren.
\* child is not program state: it records which child the row was rendered
\* from.
updateChildTable(filteredChildren) ==
    [i \in 1..Len(filteredChildren) |->
        [regNo |-> filteredChildren[i].regNo,
         name |-> filteredChildren[i].name,
         child |-> filteredChildren[i].id,
         index |-> i - 1]]

\* updateDefaulterStatus(child): the value it assigns to child.isDefaulter
updateDefaulterStatus(vaccinations, t) ==
    \E v \in Range(vaccinations) : v.nextVisit # NoDate /\ IsBefore(v.nextVisit, t)

(***************************************************************************)
(* State.                                                                  *)
(***************************************************************************)
VARIABLES
    dbChildren,           \* db.children
    dbVaccinations,       \* db.vaccinations
    dbFacility,           \* db.facility
    nextChildId,          \* key generator of db.children (++id)
    nextVaccId,           \* key generator of db.vaccinations (++id)
    children,             \* let children = []: the in-memory mirror
    unsavedVaccinations,  \* let unsavedVaccinations = {}
    selectedChildIndex,   \* let selectedChildIndex = null (-1 is null)
    immunizationModal,    \* #immunizationModal: shown or not, its table rows
    bookingModal,         \* #bookingModal: shown or not, its checkboxes
    editChildIndex,       \* let editChildIndex = null (-1 is null)
    childTable,           \* #childTable tbody: the rows with their buttons
    statsCounters,        \* the four counters updateStats writes
    defaultersTable,      \* #defaultersTable tbody
    dueSoonTable,         \* #dueSoonTable tbody
    upcomingTable,        \* #upcomingTable tbody
    notification,         \* the last showNotification(message, type)
    backupFile,           \* the last document backupData downloaded
    task,                 \* the async handlers in flight, each at its await
    issued,               \* the slots in flight, in the order their awaited
                          \* operations were issued to the store
    now,                  \* new Date()
    used,                 \* how much of each bound the run has used
    facilityName,         \* let facilityName = ''
    dbFacilities,         \* db.facilities
    dbSessions,           \* db.sessions
    nextFacilityId,       \* key generator of db.facilities (++id)
    nextSessionId,        \* key generator of db.sessions (++id)
    currentFacility,      \* currentFacility (<<>> is no facility)
    recoveryFacility,     \* let recoveryFacility = null (<<>> is null)
    recoveryStep,         \* let recoveryStep = 1
    screen,               \* what showLoginScreen() and showMainApp() last showed
    recoveryForm,         \* #forgotPasswordForm: the values of the inputs
                          \* #securityAnswerRecovery0, 1, ... and whether #step3
                          \* still holds the password inputs
    restoreFile,          \* the file chosen in #restoreFile, read and parsed, that
                          \* reader.onload has not handled yet (<<>> is none)
    history               \* what the properties need of the past; no handler reads it

vars == <<dbChildren, dbVaccinations, dbFacility, nextChildId, nextVaccId, children,
          unsavedVaccinations, selectedChildIndex, immunizationModal, bookingModal,
          editChildIndex, childTable, statsCounters, defaultersTable, dueSoonTable, upcomingTable, notification,
          backupFile, task, issued, now, used, facilityName, dbFacilities, dbSessions,
          nextFacilityId, nextSessionId, currentFacility, recoveryFacility, recoveryStep,
          recoveryForm, screen, restoreFile, history>>

\* the state of the facility accounts and of the password recovery
accountVars == <<dbFacilities, dbSessions, nextFacilityId, nextSessionId, currentFacility,
                 recoveryFacility, recoveryStep, recoveryForm, screen>>

\* what the handlers of the register leave alone
restVars == <<facilityName, accountVars, restoreFile, history>>

storeVars == <<dbChildren, dbVaccinations, dbFacility, nextChildId, nextVaccId>>

modalVars == <<selectedChildIndex, immunizationModal, bookingModal, editChildIndex>>

viewVars == <<statsCounters, defaultersTable, dueSoonTable, upcomingTable, childTable>>

Tasks == 1..MaxTasks

Idle == [op |-> "idle"]

\* a handler starts in the lowest free slot (the slots are interchangeable)
FreeTask(t) ==
    /\ task[t].op = "idle"
    /\ \A u \in Tasks : u < t => task[u].op # "idle"

Notify(type, message) == [type |-> type, message |-> message]

\* `fails` says whether the awaited storage operation rejects; a rejection is
\* counted
CountFailure(fails) ==
    used' = IF fails THEN [used EXCEPT !.failures = @ + 1] ELSE used

EmptyRow == [dateGiven |-> NoDate, batchNumber |-> "", placeGiven |-> "", remarks |-> ""]

FullRow == [dateGiven |-> GivenDay, batchNumber |-> "b", placeGiven |-> "p", remarks |-> "r"]

\* a row saveImmunization rejects: a date without batch, place and remarks
DateOnlyRow == [dateGiven |-> GivenDay, batchNumber |-> "", placeGiven |-> "", remarks |-> ""]

\* a row that is stored as a pending dose
BatchOnlyRow == [dateGiven |-> NoDate, batchNumber |-> "b", placeGiven |-> "", remarks |-> ""]

\* what the user may type into one schedule row
RowChoices == {EmptyRow, FullRow, DateOnlyRow, BatchOnlyRow}

\* the dates the user may pick in #nextVisitDate
BookDates == {Today - 1, Today + 3}

\* `${child.regNo}-${child.name}`
ChildKey(child) == <<child.regNo, child.name>>

\* children[index], index 0-based; <<>> is undefined
ChildAt(chs, index) ==
    IF index >= 0 /\ index < Len(chs) THEN <<chs[index + 1]>> ELSE <<>>

\* table.where('childId').equals(id)
DosesIn(table, id) == {v \in table : v.childId = id}

\* db.vaccinations.where('childId').equals(id)
DosesOf(id) == DosesIn(dbVaccinations, id)

\* handler `record` starts in slot t.  alone is not program state: it records
\* for a save in flight whether any other handler has been in flight with it.
Start(t, record) ==
    /\ task' = [u \in Tasks |->
                   IF u = t THEN record
                   ELSE IF task[u].op = "save" THEN [task[u] EXCEPT !.alone = FALSE]
                   ELSE task[u]]
    /\ issued' = Append(issued, t)

\* the tables the operation a handler awaits works on, and whether it writes
Scope(handler) ==
    CASE handler.op = "register" -> [tables |-> {"children"}, writes |-> TRUE]
      [] handler.op = "save" /\ handler.pc \in {"delete", "adds"} ->
            [tables |-> {"vaccinations"}, writes |-> TRUE]
      [] handler.op = "save" /\ handler.pc = "reload" ->
            [tables |-> {"vaccinations"}, writes |-> FALSE]
      [] handler.op = "save" /\ handler.pc = "update" ->
            [tables |-> {"children"}, writes |-> TRUE]
      [] handler.op = "delete" ->
            [tables |-> {"children", "vaccinations"}, writes |-> TRUE]
      [] handler.op = "edit" -> [tables |-> {"children"}, writes |-> TRUE]
      [] handler.op = "backup" -> [tables |-> {handler.pc}, writes |-> FALSE]
      [] handler.op = "facilityName" -> [tables |-> {"facility"}, writes |-> TRUE]
      [] handler.op \in {"restore", "initApp"} /\ handler.pc = "transaction" ->
            [tables |-> {"children", "vaccinations", "facility"}, writes |-> TRUE]
      [] handler.op \in {"restore", "initApp"} /\ handler.pc # "transaction" ->
            [tables |-> {handler.pc}, writes |-> FALSE]
      [] handler.op \in {"registerFacility", "demoLogin"}
         /\ handler.pc \in {"lookup", "get"} ->
            [tables |-> {"facilities"}, writes |-> FALSE]
      [] handler.op \in {"registerFacility", "demoLogin"} /\ handler.pc = "add" ->
            [tables |-> {"facilities"}, writes |-> TRUE]
      [] handler.op = "registerFacility" /\ handler.pc = "session" ->
            [tables |-> {"sessions"}, writes |-> TRUE]
      [] handler.op = "registerFacility" /\ handler.pc = "load" ->
            [tables |-> {}, writes |-> FALSE]
      [] handler.op = "verifyFacility" -> [tables |-> {"facilities"}, writes |-> FALSE]
      [] handler.op = "resume" /\ handler.pc = "session" ->
            [tables |-> {"sessions"}, writes |-> FALSE]
      [] handler.op = "resume" /\ handler.pc = "get" ->
            [tables |-> {"facilities"}, writes |-> FALSE]
      [] handler.op = "resume" /\ handler.pc = "load" ->
            [tables |-> {}, writes |-> FALSE]
      [] handler.op \in {"resetPassword", "changePassword"} ->
            [tables |-> {"facilities"}, writes |-> TRUE]
      [] handler.op = "clearAllData" ->
            [tables |-> {"children", "vaccinations", "facility"}, writes |-> TRUE]

\* the operation slot t awaits can run: no operation issued before it, and
\* still pending, works on one of its tables with one of the two writing
Ready(t) ==
    \A i, j \in DOMAIN issued :
        (i < j /\ issued[j] = t) =>
            LET first == Scope(task[issued[i]])
                second == Scope(task[t])
            IN \/ first.tables \cap second.tables = {}
               \/ ~first.writes /\ ~second.writes

\* the handler in slot t has resumed: it has issued its next operation, or it
\* has ended
Resumed(t) ==
    issued' = SelectSeq(issued, LAMBDA u : u # t)
              \o (IF task'[t].op = "idle" THEN <<>> ELSE <<t>>)

InitStore ==
    /\ dbChildren = {}
    /\ dbVaccinations = {}
    /\ dbFacility = {}
    /\ nextChildId = 1
    /\ nextVaccId = 1

InitUi ==
    /\ unsavedVaccinations = {}
    /\ selectedChildIndex = -1
    /\ editChildIndex = -1
    /\ immunizationModal = [open |-> FALSE, childKey |-> <<>>,
                            rows |-> [v \in Vaccines |-> EmptyRow]]
    /\ bookingModal = [open |-> FALSE, offered |-> {}]
    /\ backupFile = [made |-> FALSE]
    /\ issued = <<>>
    /\ used = [regs |-> 0, saves |-> 0, deletes |-> 0, backups |-> 0, failures |-> 0,
               restores |-> 0, facilityNames |-> 0, facilities |-> 0, demos |-> 0,
               clears |-> 0, recoveries |-> 0, verifies |-> 0, resets |-> 0,
               changes |-> 0, resumes |-> 0, edits |-> 0]
    /\ facilityName = ""
    /\ restoreFile = <<>>
    /\ history = [regNos |-> {}, dropped |-> {}, restore |-> "none", verified |-> 0, answered |-> FALSE,
                  form |-> <<>>, change |-> <<>>]

\* no facility account yet, nobody logged in, the recovery form not opened
InitAccounts ==
    /\ dbFacilities = {}
    /\ dbSessions = {}
    /\ nextFacilityId = 1
    /\ nextSessionId = 1
    /\ currentFacility = <<>>
    /\ recoveryFacility = <<>>
    /\ recoveryStep = 1
    /\ recoveryForm = [answers |-> <<>>, passwordInputs |-> TRUE]
    /\ screen = "login"

\* the state initApp leaves on an empty database
Init ==
    /\ InitStore
    /\ InitUi
    /\ InitAccounts
    /\ task = [t \in Tasks |-> Idle]
    /\ notification = Notify("success", "App loaded successfully!")
    /\ children = <<>>
    /\ now = DateMs(Today) + 1
    /\ statsCounters = updateStats(children, now)
    /\ defaultersTable = updateDefaultersTable(children, now)
    /\ dueSoonTable = updateDueSoonTable(children, now)
    /\ upcomingTable = updateUpcomingTable(children, now)
    /\ childTable = updateChildTable(children)

\* updateChildTable()
RenderChildTable(chs) == childTable' = updateChildTable(chs)

\* updateStats()
RefreshStats(chs) == statsCounters' = updateStats(chs, now)

\* updateAllTables()
updateAllTables(chs) ==
    /\ defaultersTable' = updateDefaultersTable(chs, now)
    /\ dueSoonTable' = updateDueSoonTable(chs, now)
    /\ upcomingTable' = updateUpcomingTable(chs, now)

(***************************************************************************)
(* Registration.                                                           *)
(***************************************************************************)
RECURSIVE NextFreeRegNo(_, _, _)
\* the while loop of generateRegNo
NextFreeRegNo(chs, count, year) ==
    IF \E i \in DOMAIN chs : chs[i].regNo = RegNoOf(count, year)
    THEN NextFreeRegNo(chs, count + 1, year)
    ELSE RegNoOf(count, year)

\* a generateRegNo without its while loop
generateRegNoOnce(chs, t) ==
    LET year == getFullYear(t)
        count == Cardinality({i \in DOMAIN chs :
                                 getFullYear(NewDate(chs[i].createdAt)) = year}) + 1
    IN RegNoOf(count, year)

generateRegNo(chs, t) ==
    LET year == getFullYear(t)
        count == Cardinality({i \in DOMAIN chs :
                                 getFullYear(NewDate(chs[i].createdAt)) = year}) + 1
    IN NextFreeRegNo(chs, count, year)

\* children.some(child => child.name.toLowerCase() === childName.toLowerCase())
NameTaken(chs, childName) ==
    \E i \in DOMAIN chs : toLowerCase(chs[i].name) = toLowerCase(childName)

\* the test of the date of birth left out
DobNeverInFuture(dob, today) == FALSE

\* new Date(dob) > today
DobInFuture(dob, today) == DateMs(dob) > today

\* the submit handler of #registrationForm up to its await
RegSubmit(t, childName, dob) ==
    /\ FreeTask(t)
    /\ IF NameTaken(children, childName)
       THEN /\ notification' = Notify("error", "Child already registered.")
            /\ UNCHANGED <<task, issued, used>>
       ELSE IF DobInFuture(dob, now)
       THEN /\ notification' =
                   Notify("error", "Date of Birth cannot be in the future.")
            /\ UNCHANGED <<task, issued, used>>
       ELSE /\ Start(t, [op |-> "register", pc |-> "add",
                          record |-> [regNo |-> generateRegNo(children, now),
                                      name |-> childName,
                                      dob |-> dob,
                                      isDefaulter |-> FALSE,
                                      createdAt |-> now]])
            /\ used' = [used EXCEPT !.regs = @ + 1]
            /\ UNCHANGED notification
    /\ UNCHANGED <<storeVars, children, unsavedVaccinations, modalVars, viewVars,
                   backupFile, now, restVars>>

\* await db.children.add(...) and the rest of the handler.
\* history.regNos is not program state: it records the regNo of every child
\* the form has stored.
RegAdd(t, fails) ==
    /\ task[t].op = "register"
    /\ Ready(t)
    /\ CountFailure(fails)
    /\ \/ /\ ~fails
          /\ dbChildren' = dbChildren \cup
                              {[id |-> nextChildId] @@ task[t].record}
          /\ nextChildId' = nextChildId + 1
          /\ children' = <<[id |-> nextChildId,
                            regNo |-> generateRegNo(children, now),
                            name |-> task[t].record.name,
                            dob |-> task[t].record.dob,
                            isDefaulter |-> FALSE,
                            vaccinations |-> <<>>,
                            createdAt |-> now]>> \o children
          /\ RenderChildTable(children')
          /\ RefreshStats(children')
          /\ notification' = Notify("success", "Child registered successfully!")
          /\ history' = [history EXCEPT !.regNos = @ \cup {task[t].record.regNo}]
       \/ /\ fails
          /\ notification' = Notify("error", "Error registering child. Please try again.")
          /\ UNCHANGED <<dbChildren, nextChildId, children, statsCounters, childTable,
                         history>>
    /\ task' = [task EXCEPT ![t] = Idle]
    /\ UNCHANGED <<dbVaccinations, dbFacility, nextVaccId, unsavedVaccinations, modalVars,
                   defaultersTable, dueSoonTable, upcomingTable, backupFile, now,
                   facilityName, accountVars, restoreFile>>
    /\ Resumed(t)

(***************************************************************************)
(* The immunization modal and the unsaved-edit buffer.                     *)
(***************************************************************************)
\* child.vaccinations.find(v => v.vaccine === vaccine); <<>> is undefined
FindVaccine(vaccinations, vaccine) ==
    LET hits == SelectSeq(vaccinations, LAMBDA v : v.vaccine = vaccine)
    IN IF hits = <<>> THEN <<>> ELSE <<hits[1]>>

\* unsavedVaccinations[childKey][vaccine]; an entry holding '' reads as a missing
\* one everywhere, so only non-empty entries are kept
UnsavedDate(childKey, vaccine) ==
    LET hits == {e \in unsavedVaccinations : e.childKey = childKey /\ e.vaccine = vaccine}
    IN IF hits = {} THEN NoDate ELSE (CHOOSE e \in hits : TRUE).date

\* trackUnsavedDate(input, childKey, vaccine): the buffer it leaves
trackUnsavedDate(value, childKey, vaccine) ==
    {e \in unsavedVaccinations : ~(e.childKey = childKey /\ e.vaccine = vaccine)}
    \cup (IF value = NoDate THEN {}
          ELSE {[childKey |-> childKey, vaccine |-> vaccine, date |-> value]})

\* the rows openImmunizationModal renders for a child
RenderRows(child) ==
    [vaccine \in Vaccines |->
        LET existingVaccine == FindVaccine(child.vaccinations, vaccine)
            unsavedDate == UnsavedDate(ChildKey(child), vaccine)
        IN [dateGiven |-> IF unsavedDate # NoDate THEN unsavedDate
                          ELSE IF existingVaccine # <<>> THEN existingVaccine[1].dateGiven
                          ELSE NoDate,
            batchNumber |-> IF existingVaccine # <<>> THEN existingVaccine[1].batchNumber
                            ELSE "",
            placeGiven |-> IF existingVaccine # <<>> THEN existingVaccine[1].placeGiven
                           ELSE "",
            remarks |-> IF existingVaccine # <<>> THEN existingVaccine[1].remarks ELSE ""]]

\* openImmunizationModal(index), from a row of a table rendered from `children`
openImmunizationModal(index) ==
    /\ index \in 0..(Len(children) - 1)
    /\ selectedChildIndex' = index
    /\ immunizationModal' = [open |-> TRUE,
                             childKey |-> ChildKey(children[index + 1]),
                             rows |-> RenderRows(children[index + 1])]
    /\ UNCHANGED <<storeVars, children, unsavedVaccinations, bookingModal, editChildIndex,
                   viewVars, notification, backupFile, task, issued, now, restVars, used>>

\* closeModal()
closeModal ==
    /\ immunizationModal.open
    /\ immunizationModal' = [immunizationModal EXCEPT !.open = FALSE]
    /\ UNCHANGED <<storeVars, children, unsavedVaccinations, selectedChildIndex,
                   bookingModal, editChildIndex, viewVars, notification, backupFile, task, issued, now, restVars, used>>

\* the user retypes one row of the modal; a changed date fires onchange, which
\* calls trackUnsavedDate with the childKey the row was rendered with
EditRow(vaccine, row) ==
    /\ immunizationModal.open
    /\ ~bookingModal.open
    /\ row # immunizationModal.rows[vaccine]
    /\ immunizationModal' = [immunizationModal EXCEPT !.rows[vaccine] = row]
    /\ unsavedVaccinations' =
          IF row.dateGiven # immunizationModal.rows[vaccine].dateGiven
          THEN trackUnsavedDate(row.dateGiven, immunizationModal.childKey, vaccine)
          ELSE unsavedVaccinations
    /\ UNCHANGED <<storeVars, children, selectedChildIndex, bookingModal, editChildIndex,
                   viewVars,
                   notification, backupFile, task, issued, now, restVars, used>>

\* a booking modal that does not look at the unsaved dates
availableWithoutBuffer(child) ==
    {v \in Vaccines :
        \A w \in Range(child.vaccinations) :
            w.vaccine = v => (w.dateGiven = NoDate /\ ~IsBooked(w))}

\* the vaccines openBookingModal offers for a child
availableVaccines(child) ==
    LET givenVaccines == {v.vaccine : v \in {w \in Range(child.vaccinations) :
                                                w.dateGiven # NoDate}}
        vaccinesWithUnsavedDates ==
            {e.vaccine : e \in {f \in unsavedVaccinations :
                                   f.childKey = ChildKey(child)}}
        bookedVaccines == {v.vaccine : v \in {w \in Range(child.vaccinations) :
                                                 IsBooked(w)}}
    IN {v \in Vaccines : /\ v \notin givenVaccines
                         /\ v \notin bookedVaccines
                         /\ v \notin vaccinesWithUnsavedDates}

\* promptToBookNextVisit() answered yes: openBookingModal().  With no child at
\* selectedChildIndex the modal is shown and the handler throws before it
\* renders the checkboxes.
openBookingModal ==
    /\ immunizationModal.open
    /\ ~bookingModal.open
    /\ bookingModal' =
          [open |-> TRUE,
           offered |-> IF ChildAt(children, selectedChildIndex) = <<>>
                       THEN bookingModal.offered
                       ELSE availableVaccines(ChildAt(children, selectedChildIndex)[1])]
    /\ UNCHANGED <<storeVars, children, unsavedVaccinations, selectedChildIndex,
                   immunizationModal, editChildIndex, viewVars, notification, backupFile, task, issued, now, restVars, used>>

\* closeBookingModal()
closeBookingModal ==
    /\ bookingModal.open
    /\ bookingModal' = [bookingModal EXCEPT !.open = FALSE]
    /\ UNCHANGED <<storeVars, children, unsavedVaccinations, selectedChildIndex,
                   immunizationModal, editChildIndex, viewVars, notification, backupFile, task, issued, now, restVars, used>>

(***************************************************************************)
(* saveImmunization.                                                       *)
(***************************************************************************)
\* a validation loop that lets every row pass
EveryRowValid(rows) == TRUE

\* the validation loop: isValid
ValidRows(rows) ==
    \A v \in Vaccines :
        rows[v].dateGiven # NoDate =>
            /\ rows[v].batchNumber # ""
            /\ rows[v].placeGiven # ""
            /\ rows[v].remarks # ""

\* a loop that adds a record for every row of the schedule, filled in or not
RowAlwaysFilled(row) == TRUE

\* dateGiven || batchNumber || placeGiven || remarks
RowFilled(row) ==
    \/ row.dateGiven # NoDate
    \/ row.batchNumber # ""
    \/ row.placeGiven # ""
    \/ row.remarks # ""

\* the record the rows.forEach loop adds for one row
RowRecord(childId, vaccine, row) ==
    [childId |-> childId,
     vaccine |-> vaccine,
     dateGiven |-> row.dateGiven,
     batchNumber |-> row.batchNumber,
     placeGiven |-> row.placeGiven,
     remarks |-> row.remarks,
     nextVisit |-> NoDate,
     status |-> IF row.dateGiven # NoDate THEN "completed" ELSE "pending"]

\* the record the nextVisitVaccines.forEach loop adds for one vaccine
BookedRecord(childId, vaccine, nextVisitDate) ==
    [childId |-> childId,
     vaccine |-> vaccine,
     dateGiven |-> NoDate,
     batchNumber |-> "",
     placeGiven |-> "",
     remarks |-> "",
     nextVisit |-> nextVisitDate,
     status |-> "scheduled"]

\* the records of vaccinationPromises, in the order the adds are issued
Submitted(childId, rows, bookNextVisit, nextVisitDate, nextVisitVaccines) ==
    LET filled == SelectSeq(vaccinationSchedule, LAMBDA v : RowFilled(rows[v]))
        fromRows == [i \in 1..Len(filled) |-> RowRecord(childId, filled[i], rows[filled[i]])]
        fromBooking ==
            IF bookNextVisit /\ nextVisitDate # NoDate /\ Len(nextVisitVaccines) > 0
            THEN [i \in 1..Len(nextVisitVaccines) |->
                     BookedRecord(childId, nextVisitVaccines[i], nextVisitDate)]
            ELSE <<>>
    IN fromRows \o fromBooking

\* saveImmunization(bookNextVisit, nextVisitDate, nextVisitVaccines) up to its
\* first await.  The rows are not retyped while the save is in flight, so the
\* records it will add are those of the rows at its start.
\* prior is not program state: it records the child's stored doses at the call.
saveImmunization(t, bookNextVisit, nextVisitDate, nextVisitVaccines) ==
    /\ FreeTask(t)
    /\ ChildAt(children, selectedChildIndex) # <<>>
    /\ LET child == ChildAt(children, selectedChildIndex)[1]
           rows == immunizationModal.rows
       IN IF ~ValidRows(rows)
          THEN /\ notification' = Notify("error",
                     "Batch Number, Place Given, and Remarks are mandatory when Date Given is selected.")
               /\ UNCHANGED <<task, issued, used>>
          ELSE /\ Start(t, [op |-> "save", pc |-> "delete",
                             childId |-> child.id,
                             childKey |-> ChildKey(child),
                             adds |-> Submitted(child.id, rows, bookNextVisit,
                                                nextVisitDate, nextVisitVaccines),
                             prior |-> Contents(DosesOf(child.id)),
                             alone |-> \A u \in Tasks : task[u].op = "idle"])
               /\ used' = [used EXCEPT !.saves = @ + 1]
               /\ UNCHANGED notification
    /\ UNCHANGED <<storeVars, children, unsavedVaccinations, modalVars, viewVars,
                   backupFile, now, restVars>>

\* promptToBookNextVisit() answered no: saveImmunization(false)
SaveNoBooking(t) ==
    /\ immunizationModal.open
    /\ ~bookingModal.open
    /\ saveImmunization(t, FALSE, NoDate, <<>>)

\* saveBooking(): a date and at least one ticked checkbox, or a notification
SaveBooking(t, nextVisitDate, ticked) ==
    /\ bookingModal.open
    /\ ticked \subseteq bookingModal.offered
    /\ IF ticked = {}
       THEN /\ notification' = Notify("error",
                  "Please select at least one vaccine for the next visit.")
            /\ UNCHANGED <<storeVars, children, unsavedVaccinations, modalVars, viewVars,
                           backupFile, task, issued, now, restVars, used>>
       ELSE saveImmunization(t, TRUE, nextVisitDate, SeqOfSet(ticked))

SaveFailed(t) ==
    /\ notification' = Notify("error", "Error saving immunization data. Please try again.")
    /\ task' = [task EXCEPT ![t] = Idle]

\* a save whose first await deletes nothing: what saveImmunization would be
\* without its delete
SaveDeleteNothing(t, fails) ==
    /\ task[t].op = "save"
    /\ task[t].pc = "delete"
    /\ Ready(t)
    /\ CountFailure(fails)
    /\ \/ /\ ~fails
          /\ task' = [task EXCEPT ![t].pc = IF task[t].adds = <<>> THEN "reload" ELSE "adds"]
          /\ UNCHANGED notification
       \/ /\ fails
          /\ SaveFailed(t)
    /\ UNCHANGED <<storeVars, children, unsavedVaccinations, modalVars, viewVars,
                   backupFile, now, restVars>>
    /\ Resumed(t)

\* await db.vaccinations.where('childId').equals(child.id).delete(), then the
\* adds are issued; with none to issue, Promise.all([]) does not suspend and the
\* reload query is issued at once
SaveDelete(t, fails) ==
    /\ task[t].op = "save"
    /\ task[t].pc = "delete"
    /\ Ready(t)
    /\ CountFailure(fails)
    /\ \/ /\ ~fails
          /\ dbVaccinations' = dbVaccinations \ DosesOf(task[t].childId)
          /\ task' = [task EXCEPT ![t].pc = IF task[t].adds = <<>> THEN "reload" ELSE "adds"]
          /\ UNCHANGED notification
       \/ /\ fails
          /\ SaveFailed(t)
          /\ UNCHANGED dbVaccinations
    /\ UNCHANGED <<dbChildren, dbFacility, nextChildId, nextVaccId, children,
                   unsavedVaccinations, modalVars, viewVars, backupFile, now, restVars>>
    /\ Resumed(t)

\* the records of `adds` at the positions `stored`, keyed from nextVaccId on
AddedRecords(adds, stored) ==
    LET order == SelectSeq([i \in 1..Len(adds) |-> i], LAMBDA i : i \in stored)
    IN {[id |-> nextVaccId + k - 1] @@ adds[order[k]] : k \in 1..Len(order)}

\* await Promise.all(vaccinationPromises): every add is a transaction of its
\* own; when some fail the others are stored all the same
SaveAdds(t, fails) ==
    /\ task[t].op = "save"
    /\ task[t].pc = "adds"
    /\ Ready(t)
    /\ CountFailure(fails)
    /\ \/ /\ ~fails
          /\ dbVaccinations' =
                dbVaccinations \cup AddedRecords(task[t].adds, DOMAIN task[t].adds)
          /\ nextVaccId' = nextVaccId + Len(task[t].adds)
          /\ task' = [task EXCEPT ![t].pc = "reload"]
          /\ UNCHANGED notification
       \/ \E stored \in (SUBSET DOMAIN task[t].adds) \ {DOMAIN task[t].adds} :
             /\ fails
             /\ SaveFailed(t)
             /\ dbVaccinations' = dbVaccinations \cup AddedRecords(task[t].adds, stored)
             /\ nextVaccId' = nextVaccId + Cardinality(stored)
    /\ UNCHANGED <<dbChildren, dbFacility, nextChildId, children, unsavedVaccinations,
                   modalVars, viewVars, backupFile, now, restVars>>
    /\ Resumed(t)

\* children with the object of child `id` given new vaccinations and isDefaulter
WithVaccinations(chs, id, vaccinations, isDefaulter) ==
    [i \in DOMAIN chs |->
        IF chs[i].id = id
        THEN [chs[i] EXCEPT !.vaccinations = vaccinations, !.isDefaulter = isDefaulter]
        ELSE chs[i]]

\* child.vaccinations = await db.vaccinations.where(...).toArray(), the buffer
\* of the child is dropped, updateDefaulterStatus(child), and the update of the
\* child record is issued with the flag just computed.  history.dropped
\* collects the buffered dates a save has dropped.
SaveReload(t, fails) ==
    /\ task[t].op = "save"
    /\ task[t].pc = "reload"
    /\ Ready(t)
    /\ CountFailure(fails)
    /\ \/ LET vaccinations == SortById(DosesOf(task[t].childId))
              isDefaulter == updateDefaulterStatus(vaccinations, now)
          IN /\ ~fails
             /\ children' = WithVaccinations(children, task[t].childId,
                                             vaccinations, isDefaulter)
             /\ unsavedVaccinations' =
                   {e \in unsavedVaccinations : e.childKey # task[t].childKey}
             /\ history' = [history EXCEPT !.dropped = @ \cup
                               {<<e.childKey, e.vaccine>> :
                                   e \in {f \in unsavedVaccinations :
                                              f.childKey = task[t].childKey}}]
             /\ task' = [task EXCEPT ![t] =
                            [op |-> "save", pc |-> "update",
                             childId |-> task[t].childId,
                             childKey |-> task[t].childKey,
                             adds |-> task[t].adds,
                             prior |-> task[t].prior,
                             alone |-> task[t].alone,
                             isDefaulter |-> isDefaulter]]
             /\ UNCHANGED notification
       \/ /\ fails
          /\ SaveFailed(t)
          /\ UNCHANGED <<children, unsavedVaccinations, history>>
    /\ UNCHANGED <<storeVars, modalVars, viewVars, backupFile, now, facilityName,
                   accountVars, restoreFile>>
    /\ Resumed(t)

\* await db.children.update(child.id, { isDefaulter }), then the modals are
\* closed and the views refreshed
SaveUpdate(t, fails) ==
    /\ task[t].op = "save"
    /\ task[t].pc = "update"
    /\ Ready(t)
    /\ CountFailure(fails)
    /\ \/ /\ ~fails
          /\ dbChildren' = {IF c.id = task[t].childId
                            THEN [c EXCEPT !.isDefaulter = task[t].isDefaulter]
                            ELSE c : c \in dbChildren}
          /\ immunizationModal' = [immunizationModal EXCEPT !.open = FALSE]
          /\ bookingModal' = [bookingModal EXCEPT !.open = FALSE]
          /\ RefreshStats(children)
          /\ updateAllTables(children)
          /\ RenderChildTable(children)
          /\ notification' = Notify("success", "Immunization data saved successfully!")
          /\ task' = [task EXCEPT ![t] = Idle]
       \/ /\ fails
          /\ SaveFailed(t)
          /\ UNCHANGED <<dbChildren, immunizationModal, bookingModal, viewVars>>
    /\ UNCHANGED <<dbVaccinations, dbFacility, nextChildId, nextVaccId, children,
                   unsavedVaccinations, selectedChildIndex, editChildIndex, backupFile, now,
                   restVars>>
    /\ Resumed(t)

(***************************************************************************)
(* deleteChild.                                                            *)
(***************************************************************************)
\* deleteChild(index) confirmed, up to its await
DeleteStart(t, index) ==
    /\ FreeTask(t)
    /\ index \in 0..(Len(children) - 1)
    /\ Start(t, [op |-> "delete", pc |-> "transaction",
                 index |-> index,
                 childId |-> children[index + 1].id])
    /\ used' = [used EXCEPT !.deletes = @ + 1]
    /\ UNCHANGED <<storeVars, children, unsavedVaccinations, modalVars, viewVars,
                   notification, backupFile, now, restVars>>

\* a deleteChild whose two deletes are not one transaction: when it fails the
\* doses are gone and the child record is kept
DeleteNotAtomic(t, fails) ==
    /\ task[t].op = "delete"
    /\ Ready(t)
    /\ CountFailure(fails)
    /\ \/ /\ ~fails
          /\ dbVaccinations' = dbVaccinations \ DosesOf(task[t].childId)
          /\ dbChildren' = {c \in dbChildren : c.id # task[t].childId}
          /\ children' = Splice(children, task[t].index)
          /\ RefreshStats(children')
          /\ updateAllTables(children')
          /\ RenderChildTable(children')
          /\ notification' = Notify("success", "Child deleted successfully.")
       \/ /\ fails
          /\ dbVaccinations' = dbVaccinations \ DosesOf(task[t].childId)
          /\ notification' = Notify("error", "Error deleting child. Please try again.")
          /\ UNCHANGED <<dbChildren, children, viewVars>>
    /\ task' = [task EXCEPT ![t] = Idle]
    /\ UNCHANGED <<dbFacility, nextChildId, nextVaccId, unsavedVaccinations, modalVars,
                   backupFile, now, restVars>>
    /\ Resumed(t)

\* await db.transaction('rw', db.children, db.vaccinations, ...): both deletes
\* commit together or the transaction aborts; then children.splice(index, 1)
DeleteTransaction(t, fails) ==
    /\ task[t].op = "delete"
    /\ Ready(t)
    /\ CountFailure(fails)
    /\ \/ /\ ~fails
          /\ dbVaccinations' = dbVaccinations \ DosesOf(task[t].childId)
          /\ dbChildren' = {c \in dbChildren : c.id # task[t].childId}
          /\ children' = Splice(children, task[t].index)
          /\ RefreshStats(children')
          /\ updateAllTables(children')
          /\ RenderChildTable(children')
          /\ notification' = Notify("success", "Child deleted successfully.")
       \/ /\ fails
          /\ notification' = Notify("error", "Error deleting child. Please try again.")
          /\ UNCHANGED <<dbVaccinations, dbChildren, children, viewVars>>
    /\ task' = [task EXCEPT ![t] = Idle]
    /\ UNCHANGED <<dbFacility, nextChildId, nextVaccId, unsavedVaccinations, modalVars,
                   backupFile, now, restVars>>
    /\ Resumed(t)

(***************************************************************************)
(* backupData.                                                             *)
(***************************************************************************)
BackupFailed(t) ==
    /\ notification' = Notify("error", "Error creating backup. Please try again.")
    /\ task' = [task EXCEPT ![t] = Idle]
    /\ UNCHANGED backupFile

\* backupData() up to its first await
BackupStart(t) ==
    /\ FreeTask(t)
    /\ Start(t, [op |-> "backup", pc |-> "children"])
    /\ used' = [used EXCEPT !.backups = @ + 1]
    /\ UNCHANGED <<storeVars, children, unsavedVaccinations, modalVars, viewVars,
                   notification, backupFile, now, restVars>>

\* children: await db.children.toArray()
BackupChildren(t, fails) ==
    /\ task[t].op = "backup"
    /\ task[t].pc = "children"
    /\ Ready(t)
    /\ CountFailure(fails)
    /\ \/ /\ ~fails
          /\ task' = [task EXCEPT ![t] = [op |-> "backup", pc |-> "vaccinations",
                                          children |-> SortById(dbChildren)]]
          /\ UNCHANGED <<notification, backupFile>>
       \/ fails /\ BackupFailed(t)
    /\ UNCHANGED <<storeVars, children, unsavedVaccinations, modalVars, viewVars, now, restVars>>
    /\ Resumed(t)

\* vaccinations: await db.vaccinations.toArray()
BackupVaccinations(t, fails) ==
    /\ task[t].op = "backup"
    /\ task[t].pc = "vaccinations"
    /\ Ready(t)
    /\ CountFailure(fails)
    /\ \/ /\ ~fails
          /\ task' = [task EXCEPT ![t] = [op |-> "backup", pc |-> "facility",
                                          children |-> task[t].children,
                                          vaccinations |-> SortById(dbVaccinations)]]
          /\ UNCHANGED <<notification, backupFile>>
       \/ fails /\ BackupFailed(t)
    /\ UNCHANGED <<storeVars, children, unsavedVaccinations, modalVars, viewVars, now, restVars>>
    /\ Resumed(t)

\* facility: await db.facility.toArray(), then the document is downloaded
BackupFacility(t, fails) ==
    /\ task[t].op = "backup"
    /\ task[t].pc = "facility"
    /\ Ready(t)
    /\ CountFailure(fails)
    /\ \/ /\ ~fails
          /\ backupFile' = [made |-> TRUE,
                            children |-> task[t].children,
                            vaccinations |-> task[t].vaccinations,
                            facility |-> SortById(dbFacility),
                            backupDate |-> now]
          /\ notification' = Notify("success", "Backup downloaded successfully!")
          /\ task' = [task EXCEPT ![t] = Idle]
       \/ fails /\ BackupFailed(t)
    /\ UNCHANGED <<storeVars, children, unsavedVaccinations, modalVars, viewVars, now, restVars>>
    /\ Resumed(t)

(***************************************************************************)
(* The facility name form.                                                 *)
(***************************************************************************)
\* the submit handler of #facilityForm up to its await
FacilityNameSubmit(t, name) ==
    /\ FreeTask(t)
    /\ facilityName' = name
    /\ Start(t, [op |-> "facilityName", pc |-> "put", name |-> name])
    /\ used' = [used EXCEPT !.facilityNames = @ + 1]
    /\ UNCHANGED <<storeVars, children, unsavedVaccinations, modalVars, viewVars,
                   notification, backupFile, now, accountVars, restoreFile, history>>

\* await db.facility.put({ id: 1, name, updatedAt })
FacilityNamePut(t, fails) ==
    /\ task[t].op = "facilityName"
    /\ Ready(t)
    /\ CountFailure(fails)
    /\ \/ /\ ~fails
          /\ dbFacility' = {r \in dbFacility : r.id # 1}
                              \cup {[id |-> 1, name |-> task[t].name, updatedAt |-> now]}
          /\ notification' = Notify("success", "Facility name saved successfully!")
       \/ /\ fails
          /\ notification' = Notify("error", "Error saving facility name. Please try again.")
          /\ UNCHANGED dbFacility
    /\ task' = [task EXCEPT ![t] = Idle]
    /\ UNCHANGED <<dbChildren, dbVaccinations, nextChildId, nextVaccId, children,
                   unsavedVaccinations, modalVars, viewVars, backupFile, now, restVars>>
    /\ Resumed(t)

(***************************************************************************)
(* Restore.  A backup document is a function on the keys it has.           *)
(***************************************************************************)
\* JSON.parse(JSON.stringify(allData)) of the document backupData downloads
BackupDocument(file) ==
    [children |-> [i \in DOMAIN file.children |->
                      [file.children[i] EXCEPT !.createdAt = toJSON(@)]],
     vaccinations |-> file.vaccinations,
     facility |-> [i \in DOMAIN file.facility |->
                      [file.facility[i] EXCEPT !.updatedAt = toJSON(@)]],
     backupDate |-> toJSON(file.backupDate)]

\* the document without one of its keys
WithoutKey(data, key) == [k \in (DOMAIN data) \ {key} |-> data[k]]

\* data.key is truthy: the key is there (an array, even an empty one, is truthy)
Truthy(data, key) == key \in DOMAIN data

\* a validation that looks for the children key only
InvalidBackupChildrenOnly(data) == ~Truthy(data, "children")

\* !data.children || !data.vaccinations
InvalidBackup(data) == ~Truthy(data, "children") \/ ~Truthy(data, "vaccinations")

\* the change handler of #restoreFile: reader.readAsText(file); the file is
\* parsed when reader.onload runs
ChooseRestoreFile(data) ==
    /\ restoreFile = <<>>
    /\ restoreFile' = <<data>>
    /\ UNCHANGED <<storeVars, children, unsavedVaccinations, modalVars, viewVars,
                   notification, backupFile, task, issued, now, used, facilityName,
                   accountVars, history>>

\* reader.onload up to its await: the format test, then confirm().
\* history.restore records how the last restore went.
RestoreOnload(t, confirmed) ==
    /\ restoreFile # <<>>
    /\ FreeTask(t)
    /\ restoreFile' = <<>>
    /\ LET data == restoreFile[1]
       IN IF InvalidBackup(data)
          THEN /\ notification' = Notify("error",
                     "Invalid backup file. Please upload a valid JSON file.")
               /\ history' = [history EXCEPT !.restore = "rejected"]
               /\ UNCHANGED <<task, issued, used>>
          ELSE IF ~confirmed
          THEN UNCHANGED <<notification, history, task, issued, used>>
          ELSE /\ Start(t, [op |-> "restore", pc |-> "transaction", data |-> data])
               /\ used' = [used EXCEPT !.restores = @ + 1]
               /\ UNCHANGED <<notification, history>>
    /\ UNCHANGED <<storeVars, children, unsavedVaccinations, modalVars, viewVars,
                   backupFile, now, facilityName, accountVars>>

\* the records table.bulkAdd(data.key) stores, none without the key
Imported(data, key) == IF Truthy(data, key) THEN Range(data[key]) ELSE {}

\* bulkAdd takes records whose primary keys differ
DistinctKeys(data, key) ==
    Truthy(data, key) =>
        \A i, j \in DOMAIN data[key] : data[key][i].id = data[key][j].id => i = j

\* the key generator after records with explicit keys were added
GeneratorAfter(next, records) ==
    IF records = {} THEN next
    ELSE LET top == CHOOSE r \in records : \A q \in records : q.id <= r.id
         IN IF top.id >= next THEN top.id + 1 ELSE next

\* initApp() begins: its first query is issued
InitAppBegins(t) ==
    task' = [task EXCEPT ![t] = [k |-> 0] @@ [task[t] EXCEPT !.pc = "facility"]]

\* a restore whose clears and inserts are transactions of their own: when it
\* fails the tables are cleared and the children of the document are in
RestoreNotAtomic(t, fails) ==
    /\ task[t].op = "restore"
    /\ task[t].pc = "transaction"
    /\ Ready(t)
    /\ CountFailure(fails)
    /\ LET data == task[t].data
       IN /\ dbChildren' = Imported(data, "children")
          /\ nextChildId' = GeneratorAfter(nextChildId, Imported(data, "children"))
          /\ \/ /\ ~fails
                /\ \A key \in {"children", "vaccinations", "facility"} :
                      DistinctKeys(data, key)
                /\ dbVaccinations' = Imported(data, "vaccinations")
                /\ dbFacility' = Imported(data, "facility")
                /\ nextVaccId' = GeneratorAfter(nextVaccId, Imported(data, "vaccinations"))
                /\ history' = [history EXCEPT !.restore = "committed"]
                /\ InitAppBegins(t)
                /\ UNCHANGED notification
             \/ /\ fails
                /\ dbVaccinations' = {}
                /\ dbFacility' = {}
                /\ history' = [history EXCEPT !.restore = "aborted"]
                /\ notification' = Notify("error",
                      "Invalid backup file. Please upload a valid JSON file.")
                /\ task' = [task EXCEPT ![t] = Idle]
                /\ UNCHANGED nextVaccId
    /\ UNCHANGED <<children, unsavedVaccinations, modalVars, viewVars, backupFile, now,
                   facilityName, accountVars, restoreFile>>
    /\ Resumed(t)

\* await db.transaction('rw', db.children, db.vaccinations, db.facility, ...):
\* the three clears and the three bulkAdds commit together or the transaction
\* aborts; then initApp() is called
RestoreTransaction(t, fails) ==
    /\ task[t].op = "restore"
    /\ task[t].pc = "transaction"
    /\ Ready(t)
    /\ CountFailure(fails)
    /\ LET data == task[t].data
       IN \/ /\ ~fails
             /\ \A key \in {"children", "vaccinations", "facility"} :
                   DistinctKeys(data, key)
             /\ dbChildren' = Imported(data, "children")
             /\ dbVaccinations' = Imported(data, "vaccinations")
             /\ dbFacility' = Imported(data, "facility")
             /\ nextChildId' = GeneratorAfter(nextChildId, Imported(data, "children"))
             /\ nextVaccId' = GeneratorAfter(nextVaccId, Imported(data, "vaccinations"))
             /\ history' = [history EXCEPT !.restore = "committed"]
             /\ InitAppBegins(t)
             /\ UNCHANGED notification
          \/ /\ fails
             /\ history' = [history EXCEPT !.restore = "aborted"]
             /\ notification' = Notify("error",
                   "Invalid backup file. Please upload a valid JSON file.")
             /\ task' = [task EXCEPT ![t] = Idle]
             /\ UNCHANGED storeVars
    /\ UNCHANGED <<children, unsavedVaccinations, modalVars, viewVars, backupFile, now,
                   facilityName, accountVars, restoreFile>>
    /\ Resumed(t)

(***************************************************************************)
(* initApp, as the restore handler calls it.                               *)
(***************************************************************************)
\* initApp() has returned: reader.onload goes on to its last notification
InitAppReturns(t) ==
    /\ notification' = IF task[t].op = "restore"
                       THEN Notify("success", "Data restored successfully!")
                       ELSE Notify("success", "App loaded successfully!")
    /\ task' = [task EXCEPT ![t] = Idle]

\* the catch of initApp: the error is shown and initApp() returns all the same
InitAppFailed(t) ==
    /\ notification' = IF task[t].op = "restore"
                       THEN Notify("success", "Data restored successfully!")
                       ELSE Notify("error", "Error loading data. Please refresh the page.")
    /\ task' = [task EXCEPT ![t] = Idle]

\* const facility = await db.facility.get(1)
InitAppFacility(t, fails) ==
    /\ task[t].op \in {"restore", "initApp"}
    /\ task[t].pc = "facility"
    /\ Ready(t)
    /\ CountFailure(fails)
    /\ \/ /\ ~fails
          /\ facilityName' = IF \E r \in dbFacility : r.id = 1
                             THEN (CHOOSE r \in dbFacility : r.id = 1).name
                             ELSE facilityName
          /\ task' = [task EXCEPT ![t].pc = "children"]
          /\ UNCHANGED notification
       \/ /\ fails
          /\ InitAppFailed(t)
          /\ UNCHANGED facilityName
    /\ UNCHANGED <<storeVars, children, unsavedVaccinations, modalVars, viewVars,
                   backupFile, now, accountVars, restoreFile, history>>
    /\ Resumed(t)

\* children = await db.children.orderBy('createdAt').reverse().toArray(): the
\* children of the new list have no vaccinations yet.  With no child the loop
\* is skipped and the views are rendered at once.
InitAppChildren(t, fails) ==
    /\ task[t].op \in {"restore", "initApp"}
    /\ task[t].pc = "children"
    /\ Ready(t)
    /\ CountFailure(fails)
    /\ \/ /\ ~fails
          /\ children' = NewestFirst(dbChildren)
          /\ IF dbChildren = {}
             THEN /\ RefreshStats(children')
                  /\ updateAllTables(children')
                  /\ RenderChildTable(children')
                  /\ InitAppReturns(t)
             ELSE /\ task' = [task EXCEPT ![t].pc = "vaccinations", ![t].k = 1]
                  /\ UNCHANGED <<viewVars, notification>>
       \/ /\ fails
          /\ InitAppFailed(t)
          /\ UNCHANGED <<children, viewVars>>
    /\ UNCHANGED <<storeVars, unsavedVaccinations, modalVars, backupFile, now,
                   restVars>>
    /\ Resumed(t)

\* one turn of the loop: child.vaccinations = await
\* db.vaccinations.where('childId').equals(child.id).toArray(); after the last
\* child the views are rendered
InitAppVaccinations(t, fails) ==
    /\ task[t].op \in {"restore", "initApp"}
    /\ task[t].pc = "vaccinations"
    /\ Ready(t)
    /\ CountFailure(fails)
    /\ \/ LET k == task[t].k
          IN /\ ~fails
             /\ children' = [children EXCEPT ![k] =
                                [vaccinations |-> SortById(DosesOf(children[k].id))]
                                @@ children[k]]
             /\ IF k = Len(children)
                THEN /\ RefreshStats(children')
                     /\ updateAllTables(children')
                     /\ RenderChildTable(children')
                     /\ InitAppReturns(t)
                ELSE /\ task' = [task EXCEPT ![t].k = k + 1]
                     /\ UNCHANGED <<viewVars, notification>>
       \/ /\ fails
          /\ InitAppFailed(t)
          /\ UNCHANGED <<children, viewVars>>
    /\ UNCHANGED <<storeVars, unsavedVaccinations, modalVars, backupFile, now,
                   restVars>>
    /\ Resumed(t)

(***************************************************************************)
(* Strings of the facility accounts: sequences of one-character strings.   *)
(***************************************************************************)
LowerCase == <<"a", "b", "c", "d", "e", "f", "g", "h", "i", "j", "k", "l", "m",
               "n", "o", "p", "q", "r", "s", "t", "u", "v", "w", "x", "y", "z">>

UpperCase == <<"A", "B", "C", "D", "E", "F", "G", "H", "I", "J", "K", "L", "M",
               "N", "O", "P", "Q", "R", "S", "T", "U", "V", "W", "X", "Y", "Z">>

\* String.prototype.toUpperCase(), one character
CharToUpperCase(c) ==
    IF \E i \in DOMAIN LowerCase : LowerCase[i] = c
    THEN UpperCase[CHOOSE i \in DOMAIN LowerCase : LowerCase[i] = c]
    ELSE c

\* String.prototype.toLowerCase(), one character
CharToLowerCase(c) ==
    IF \E i \in DOMAIN UpperCase : UpperCase[i] = c
    THEN LowerCase[CHOOSE i \in DOMAIN UpperCase : UpperCase[i] = c]
    ELSE c

\* s.toUpperCase()
StrToUpperCase(s) == [i \in DOMAIN s |-> CharToUpperCase(s[i])]

\* s.toLowerCase()
StrToLowerCase(s) == [i \in DOMAIN s |-> CharToLowerCase(s[i])]

RECURSIVE trimStart(_)
trimStart(s) == IF s # <<>> /\ Head(s) = " " THEN trimStart(Tail(s)) ELSE s

RECURSIVE trimEnd(_)
trimEnd(s) ==
    IF s # <<>> /\ s[Len(s)] = " " THEN trimEnd(SubSeq(s, 1, Len(s) - 1)) ELSE s

\* s.trim()
trim(s) == trimEnd(trimStart(s))

(***************************************************************************)
(* Registration of a facility (the submit handler of #newFacilityForm).    *)
(***************************************************************************)
\* db.facilities.where('code').equals(code).first(): <<>> is undefined.  The
\* index on code is not unique; first() is the match with the lowest key.
FirstWithCode(table, code) ==
    LET matches == {f \in table : f.code = code}
    IN IF matches = {} THEN <<>>
       ELSE <<CHOOSE f \in matches : \A g \in matches : f.id <= g.id>>

\* db.facilities.get(id): <<>> is undefined
GetFacility(table, id) ==
    IF \E f \in table : f.id = id THEN <<CHOOSE f \in table : f.id = id>> ELSE <<>>

\* the validation without the test of the password's length
ValidationErrorNoLength(form) ==
    IF form.password # form.confirmPassword THEN "Passwords do not match."
    ELSE IF \/ form.question1 = "" \/ trim(form.answer1) = <<>>
            \/ form.question2 = "" \/ trim(form.answer2) = <<>>
    THEN "Please complete all security questions."
    ELSE ""

\* the validation of the handler: the message of the first test that fails,
\* "" when none does
ValidationError(form) ==
    IF form.password # form.confirmPassword THEN "Passwords do not match."
    ELSE IF Len(form.password) < 4 THEN "Password must be at least 4 characters long."
    ELSE IF \/ form.question1 = "" \/ trim(form.answer1) = <<>>
            \/ form.question2 = "" \/ trim(form.answer2) = <<>>
    THEN "Please complete all security questions."
    ELSE ""

\* the handler up to its first await.  taken and history.form are not program
\* state: taken records whether a stored facility had the code when the form
\* was submitted, history.form the form of the last submission.  region and
\* district are stored as typed and read by nothing: they are left out.
FacilitySubmit(t, form) ==
    LET code == StrToUpperCase(trim(form.code))
    IN /\ FreeTask(t)
       /\ IF ValidationError(form) # ""
          THEN /\ notification' = Notify("error", ValidationError(form))
               /\ UNCHANGED <<task, issued, used>>
          ELSE /\ Start(t, [op |-> "registerFacility", pc |-> "lookup",
                             record |-> [code |-> code,
                                         name |-> trim(form.name),
                                         password |-> form.password,
                                         securityQuestions |->
                                             <<[question |-> form.question1,
                                                answer |-> trim(form.answer1)],
                                               [question |-> form.question2,
                                                answer |-> trim(form.answer2)]>>],
                             taken |-> \E f \in dbFacilities : f.code = code])
               /\ used' = [used EXCEPT !.facilities = @ + 1]
               /\ UNCHANGED notification
       /\ history' = [history EXCEPT !.form = form]
       /\ UNCHANGED <<storeVars, children, unsavedVaccinations, modalVars, viewVars,
                      backupFile, now, facilityName, accountVars, restoreFile>>

\* the catch block of the handler
FacilityFailed(t) ==
    /\ notification' = Notify("error", "Registration failed. Please try again.")
    /\ task' = [task EXCEPT ![t] = Idle]

\* await db.facilities.where('code').equals(code).first(), up to the call of
\* db.facilities.add
FacilityLookup(t, fails) ==
    /\ task[t].op = "registerFacility"
    /\ task[t].pc = "lookup"
    /\ Ready(t)
    /\ CountFailure(fails)
    /\ IF fails THEN FacilityFailed(t)
       ELSE IF FirstWithCode(dbFacilities, task[t].record.code) # <<>>
       THEN /\ notification' =
                   Notify("error",
                          "Facility code already exists. Please choose a different code.")
            /\ task' = [task EXCEPT ![t] = Idle]
       ELSE /\ task' = [task EXCEPT ![t] =
                           [@ EXCEPT !.pc = "add",
                                     !.record = [createdAt |-> now] @@ @]]
            /\ UNCHANGED notification
    /\ UNCHANGED <<storeVars, children, unsavedVaccinations, modalVars, viewVars,
                   backupFile, now, facilityName, accountVars, restoreFile, history>>
    /\ Resumed(t)

\* const facilityId = await db.facilities.add(...), up to the call of
\* db.facilities.get
FacilityAdd(t, fails) ==
    /\ task[t].op = "registerFacility"
    /\ task[t].pc = "add"
    /\ Ready(t)
    /\ CountFailure(fails)
    /\ IF fails
       THEN /\ FacilityFailed(t)
            /\ UNCHANGED <<dbFacilities, nextFacilityId>>
       ELSE /\ dbFacilities' = dbFacilities \cup
                                   {[id |-> nextFacilityId] @@ task[t].record}
            /\ nextFacilityId' = nextFacilityId + 1
            /\ task' = [task EXCEPT ![t] =
                           [facilityId |-> nextFacilityId]
                           @@ [@ EXCEPT !.pc = "get"]]
            /\ UNCHANGED notification
    /\ UNCHANGED <<storeVars, children, unsavedVaccinations, modalVars, viewVars,
                   backupFile, now, facilityName, dbSessions, nextSessionId,
                   currentFacility, recoveryFacility, recoveryStep, recoveryForm,
                   screen, restoreFile, history>>
    /\ Resumed(t)

\* currentFacility = await db.facilities.get(facilityId), up to the call of
\* db.sessions.add: its argument is built from currentFacility here
FacilityGet(t, fails) ==
    /\ task[t].op = "registerFacility"
    /\ task[t].pc = "get"
    /\ Ready(t)
    /\ CountFailure(fails)
    /\ IF fails
       THEN /\ FacilityFailed(t)
            /\ UNCHANGED currentFacility
       ELSE LET got == GetFacility(dbFacilities, task[t].facilityId)
            IN /\ currentFacility' = got
               /\ IF got = <<>>
                  THEN FacilityFailed(t)
                  ELSE /\ task' = [task EXCEPT ![t] =
                                      [session |-> [facilityId |-> got[1].id,
                                                    loggedInAt |-> now]]
                                      @@ [@ EXCEPT !.pc = "session"]]
                       /\ UNCHANGED notification
    /\ UNCHANGED <<storeVars, children, unsavedVaccinations, modalVars, viewVars,
                   backupFile, now, facilityName, dbFacilities, dbSessions,
                   nextFacilityId, nextSessionId, recoveryFacility, recoveryStep,
                   recoveryForm, screen, restoreFile, history>>
    /\ Resumed(t)

\* await db.sessions.add(...), showMainApp() and the call of loadFacilityData()
FacilitySession(t, fails) ==
    /\ task[t].op = "registerFacility"
    /\ task[t].pc = "session"
    /\ Ready(t)
    /\ CountFailure(fails)
    /\ IF fails
       THEN /\ FacilityFailed(t)
            /\ UNCHANGED <<dbSessions, nextSessionId, screen>>
       ELSE /\ dbSessions' = dbSessions \cup
                                 {[id |-> nextSessionId] @@ task[t].session}
            /\ nextSessionId' = nextSessionId + 1
            /\ screen' = "main"
            /\ task' = [task EXCEPT ![t].pc = "load"]
            /\ UNCHANGED notification
    /\ UNCHANGED <<storeVars, children, unsavedVaccinations, modalVars, viewVars,
                   backupFile, now, facilityName, dbFacilities, nextFacilityId,
                   currentFacility, recoveryFacility, recoveryStep, recoveryForm,
                   restoreFile, history>>
    /\ Resumed(t)

\* await loadFacilityData() and the rest of the handler.  What
\* loadFacilityData loads into the page is not modelled; it writes no table.
FacilityLoad(t, fails) ==
    /\ task[t].op = "registerFacility"
    /\ task[t].pc = "load"
    /\ Ready(t)
    /\ CountFailure(fails)
    /\ IF fails THEN FacilityFailed(t)
       ELSE /\ notification' = Notify("success", "Facility registered successfully!")
            /\ task' = [task EXCEPT ![t] = Idle]
    /\ UNCHANGED <<storeVars, children, unsavedVaccinations, modalVars, viewVars,
                   backupFile, now, facilityName, accountVars, restoreFile, history>>
    /\ Resumed(t)

(***************************************************************************)
(* showDemoLogin.  The function has no try: a rejected operation ends it.  *)
(***************************************************************************)
DemoCode == <<"D", "E", "M", "O", "0", "0", "1">>

DemoFacility ==
    [code |-> DemoCode,
     name |-> <<"D", "e", "m", "o">>,
     password |-> <<"d", "e", "m", "o", "1", "2", "3">>,
     securityQuestions |-> <<[question |-> "What is your favorite color?",
                              answer |-> <<"b", "l", "u", "e">>],
                             [question |-> "What is your favorite food?",
                              answer |-> <<"r", "i", "c", "e">>]>>]

\* the end of showDemoLogin
DemoFilled(t) ==
    /\ notification' =
           Notify("info", "Demo credentials filled. Click Login to continue.")
    /\ task' = [task EXCEPT ![t] = Idle]

\* showDemoLogin up to its first await
DemoStart(t) ==
    /\ FreeTask(t)
    /\ Start(t, [op |-> "demoLogin", pc |-> "lookup"])
    /\ used' = [used EXCEPT !.demos = @ + 1]
    /\ UNCHANGED <<storeVars, children, unsavedVaccinations, modalVars, viewVars,
                   notification, backupFile, now, restVars>>

\* await db.facilities.where('code').equals('DEMO001').first()
DemoLookup(t, fails) ==
    /\ task[t].op = "demoLogin"
    /\ task[t].pc = "lookup"
    /\ Ready(t)
    /\ CountFailure(fails)
    /\ IF fails
       THEN /\ task' = [task EXCEPT ![t] = Idle]
            /\ UNCHANGED notification
       ELSE IF FirstWithCode(dbFacilities, DemoCode) # <<>>
       THEN DemoFilled(t)
       ELSE /\ task' = [task EXCEPT ![t] =
                           [record |-> [createdAt |-> now] @@ DemoFacility]
                           @@ [@ EXCEPT !.pc = "add"]]
            /\ UNCHANGED notification
    /\ UNCHANGED <<storeVars, children, unsavedVaccinations, modalVars, viewVars,
                   backupFile, now, facilityName, accountVars, restoreFile, history>>
    /\ Resumed(t)

\* const demoId = await db.facilities.add(...)
DemoAdd(t, fails) ==
    /\ task[t].op = "demoLogin"
    /\ task[t].pc = "add"
    /\ Ready(t)
    /\ CountFailure(fails)
    /\ IF fails
       THEN /\ task' = [task EXCEPT ![t] = Idle]
            /\ UNCHANGED <<dbFacilities, nextFacilityId>>
       ELSE /\ dbFacilities' = dbFacilities \cup
                                   {[id |-> nextFacilityId] @@ task[t].record}
            /\ nextFacilityId' = nextFacilityId + 1
            /\ task' = [task EXCEPT ![t] =
                           [facilityId |-> nextFacilityId]
                           @@ [@ EXCEPT !.pc = "get"]]
    /\ UNCHANGED <<storeVars, children, unsavedVaccinations, modalVars, viewVars,
                   notification, backupFile, now, facilityName, dbSessions,
                   nextSessionId, currentFacility, recoveryFacility, recoveryStep,
                   recoveryForm, screen, restoreFile, history>>
    /\ Resumed(t)

\* demoFacility = await db.facilities.get(demoId) and the rest of the function
DemoGet(t, fails) ==
    /\ task[t].op = "demoLogin"
    /\ task[t].pc = "get"
    /\ Ready(t)
    /\ CountFailure(fails)
    /\ IF fails
       THEN /\ task' = [task EXCEPT ![t] = Idle]
            /\ UNCHANGED notification
       ELSE DemoFilled(t)
    /\ UNCHANGED <<storeVars, children, unsavedVaccinations, modalVars, viewVars,
                   backupFile, now, facilityName, accountVars, restoreFile, history>>
    /\ Resumed(t)

(***************************************************************************)
(* Password recovery.  history.verified and history.answered are not       *)
(* program state: the id of the facility verifyFacilityForRecovery last    *)
(* accepted, and whether verifySecurityAnswers has since been called with  *)
(* every answer right; showForgotPasswordForm forgets both.                *)
(***************************************************************************)
\* the two letters are the same, whatever their case
SameLetter(c, d) ==
    \/ c = d
    \/ \E j \in DOMAIN LowerCase : {c, d} = {LowerCase[j], UpperCase[j]}

\* what the user entered, without the white space around it, is the stored
\* answer up to the case of its letters
AnswerMatches(entered, stored) ==
    \E l, r \in 0..Len(entered) :
        /\ l + r <= Len(entered)
        /\ \A i \in 1..l : entered[i] = " "
        /\ \A i \in (Len(entered) - r + 1)..Len(entered) : entered[i] = " "
        /\ l + r < Len(entered) =>
               entered[l + 1] # " " /\ entered[Len(entered) - r] # " "
        /\ Len(entered) - l - r = Len(stored)
        /\ \A i \in DOMAIN stored : SameLetter(entered[l + i], stored[i])

\* every entered answer matches the stored answer of its question
EveryAnswerMatches(facility, answers) ==
    \A i \in DOMAIN facility.securityQuestions :
        AnswerMatches(answers[i], facility.securityQuestions[i].answer)

\* showForgotPasswordForm()
showForgotPasswordForm ==
    /\ recoveryFacility' = <<>>
    /\ recoveryStep' = 1
    /\ history' = [history EXCEPT !.verified = 0, !.answered = FALSE]
    /\ used' = [used EXCEPT !.recoveries = @ + 1]
    /\ UNCHANGED <<storeVars, children, unsavedVaccinations, modalVars, viewVars,
                   notification, backupFile, task, issued, now, facilityName,
                   dbFacilities, dbSessions, nextFacilityId, nextSessionId,
                   currentFacility, recoveryForm, screen, restoreFile>>

\* verifyFacilityForRecovery up to its await
VerifyFacilityStart(t, typed) ==
    LET facilityCode == StrToUpperCase(trim(typed))
    IN /\ FreeTask(t)
       /\ IF facilityCode = <<>>
          THEN /\ notification' = Notify("error", "Please enter your facility code.")
               /\ UNCHANGED <<task, issued, used>>
          ELSE /\ Start(t, [op |-> "verifyFacility", pc |-> "lookup",
                             code |-> facilityCode])
               /\ used' = [used EXCEPT !.verifies = @ + 1]
               /\ UNCHANGED notification
       /\ UNCHANGED <<storeVars, children, unsavedVaccinations, modalVars, viewVars,
                      backupFile, now, restVars>>

\* the inputs loadSecurityQuestions() renders: one empty input for each question
loadSecurityQuestions(facility) ==
    [i \in DOMAIN facility.securityQuestions |-> <<>>]

\* await db.facilities.where('code').equals(facilityCode).first() and the rest
\* of verifyFacilityForRecovery
VerifyFacilityLookup(t, fails) ==
    /\ task[t].op = "verifyFacility"
    /\ Ready(t)
    /\ CountFailure(fails)
    /\ LET found == FirstWithCode(dbFacilities, task[t].code)
       IN IF fails
          THEN /\ notification' =
                      Notify("error", "Error verifying facility. Please try again.")
               /\ UNCHANGED <<recoveryFacility, recoveryStep, recoveryForm, history>>
          ELSE IF found = <<>>
          THEN /\ notification' =
                      Notify("error",
                             "Facility not found. Please check your facility code.")
               /\ UNCHANGED <<recoveryFacility, recoveryStep, recoveryForm, history>>
          ELSE IF \/ "securityQuestions" \notin DOMAIN found[1]
                  \/ Len(found[1].securityQuestions) = 0
          THEN /\ notification' =
                      Notify("error", "This facility does not have security questions set up. Please contact system administrator.")
               /\ UNCHANGED <<recoveryFacility, recoveryStep, recoveryForm, history>>
          ELSE /\ recoveryFacility' = found
               /\ recoveryForm' =
                      [recoveryForm EXCEPT !.answers = loadSecurityQuestions(found[1])]
               /\ recoveryStep' = 2
               /\ notification' =
                      Notify("success",
                             "Facility verified. Please answer your security questions.")
               /\ history' = [history EXCEPT !.verified = found[1].id,
                                             !.answered = FALSE]
    /\ task' = [task EXCEPT ![t] = Idle]
    /\ UNCHANGED <<storeVars, children, unsavedVaccinations, modalVars, viewVars,
                   backupFile, now, facilityName, dbFacilities, dbSessions,
                   nextFacilityId, nextSessionId, currentFacility, screen, restoreFile>>
    /\ Resumed(t)

\* the user fills in the inputs #securityAnswerRecovery0, 1, ...
EnterAnswers(answers) ==
    /\ Len(answers) = Len(recoveryForm.answers)
    /\ recoveryForm' = [recoveryForm EXCEPT !.answers = answers]
    /\ UNCHANGED <<storeVars, children, unsavedVaccinations, modalVars, viewVars,
                   notification, backupFile, task, issued, now, used, facilityName,
                   dbFacilities, dbSessions, nextFacilityId, nextSessionId,
                   currentFacility, recoveryFacility, recoveryStep, screen, restoreFile,
                   history>>

\* allCorrect with a loop that stops at the first right answer
SomeCorrect(questions, answers) ==
    \E i \in DOMAIN questions :
        StrToLowerCase(trim(answers[i])) = StrToLowerCase(questions[i].answer)

\* allCorrect after the forEach of verifySecurityAnswers
AllCorrect(questions, answers) ==
    \A i \in DOMAIN questions :
        StrToLowerCase(trim(answers[i])) = StrToLowerCase(questions[i].answer)

\* verifySecurityAnswers(), with a facility verified and its inputs rendered
verifySecurityAnswers ==
    /\ recoveryFacility # <<>>
    /\ Len(recoveryForm.answers) = Len(recoveryFacility[1].securityQuestions)
    /\ IF AllCorrect(recoveryFacility[1].securityQuestions, recoveryForm.answers)
       THEN /\ recoveryStep' = 3
            /\ notification' =
                   Notify("success", "Security questions answered correctly! You can now reset your password.")
       ELSE /\ notification' =
                   Notify("error", "Some answers are incorrect. Please try again.")
            /\ UNCHANGED recoveryStep
    /\ history' = [history EXCEPT !.answered =
                       EveryAnswerMatches(recoveryFacility[1], recoveryForm.answers)]
    /\ UNCHANGED <<storeVars, children, unsavedVaccinations, modalVars, viewVars,
                   backupFile, task, issued, now, used, facilityName, dbFacilities,
                   dbSessions, nextFacilityId, nextSessionId, currentFacility,
                   recoveryFacility, recoveryForm, screen, restoreFile>>

\* the tests of resetPassword without the test of the password's length
ResetErrorNoLength(newPassword, confirmPassword) ==
    IF newPassword = <<>> \/ confirmPassword = <<>>
    THEN "Please fill in all password fields."
    ELSE IF newPassword # confirmPassword THEN "Passwords do not match."
    ELSE ""

\* the tests of resetPassword before its try: the message of the first that
\* fails, "" when none does
ResetError(newPassword, confirmPassword) ==
    IF newPassword = <<>> \/ confirmPassword = <<>>
    THEN "Please fill in all password fields."
    ELSE IF Len(newPassword) < 4 THEN "Password must be at least 4 characters long."
    ELSE IF newPassword # confirmPassword THEN "Passwords do not match."
    ELSE ""

\* resetPassword up to its await.  prior and confirm are not program state:
\* prior records history.verified and history.answered as they are at the
\* call, confirm the confirmation entered.
ResetStart(t, newPassword, confirmPassword) ==
    /\ FreeTask(t)
    /\ IF ResetError(newPassword, confirmPassword) # ""
       THEN /\ notification' =
                   Notify("error", ResetError(newPassword, confirmPassword))
            /\ UNCHANGED <<task, issued, used>>
       ELSE IF recoveryFacility = <<>>
       THEN /\ notification' =
                   Notify("error", "Error resetting password. Please try again.")
            /\ UNCHANGED <<task, issued, used>>
       ELSE /\ Start(t, [op |-> "resetPassword", pc |-> "update",
                          id |-> recoveryFacility[1].id,
                          password |-> newPassword,
                          confirm |-> confirmPassword,
                          prior |-> [verified |-> history.verified,
                                     answered |-> history.answered]])
            /\ used' = [used EXCEPT !.resets = @ + 1]
            /\ UNCHANGED notification
    /\ UNCHANGED <<storeVars, children, unsavedVaccinations, modalVars, viewVars,
                   backupFile, now, restVars>>

\* db.facilities.update(id, {password: newPassword})
UpdatePassword(table, id, newPassword) ==
    {IF f.id = id THEN [f EXCEPT !.password = newPassword] ELSE f : f \in table}

\* await db.facilities.update(...) and the rest of resetPassword
ResetUpdate(t, fails) ==
    /\ task[t].op = "resetPassword"
    /\ Ready(t)
    /\ CountFailure(fails)
    /\ IF fails
       THEN /\ notification' =
                   Notify("error", "Error resetting password. Please try again.")
            /\ UNCHANGED <<dbFacilities, recoveryForm>>
       ELSE /\ dbFacilities' = UpdatePassword(dbFacilities, task[t].id, task[t].password)
            /\ recoveryForm' = [recoveryForm EXCEPT !.passwordInputs = FALSE]
            /\ notification' = Notify("success", "Password reset successfully!")
    /\ task' = [task EXCEPT ![t] = Idle]
    /\ UNCHANGED <<storeVars, children, unsavedVaccinations, modalVars, viewVars,
                   backupFile, now, facilityName, dbSessions, nextFacilityId,
                   nextSessionId, currentFacility, recoveryFacility, recoveryStep,
                   screen, restoreFile, history>>
    /\ Resumed(t)

(***************************************************************************)
(* changePassword.                                                         *)
(***************************************************************************)
\* the tests of changePassword without the test of the current password
ChangeErrorNoCurrent(facility, currentPassword, newPassword, confirmNewPassword) ==
    IF currentPassword = <<>> \/ newPassword = <<>> \/ confirmNewPassword = <<>>
    THEN "Please fill in all password fields."
    ELSE IF Len(newPassword) < 4
    THEN "New password must be at least 4 characters long."
    ELSE IF newPassword # confirmNewPassword THEN "New passwords do not match."
    ELSE ""

\* the tests of changePassword before its try: the message of the first that
\* fails, "" when none does.  facility is currentFacility, the in-memory one.
ChangeError(facility, currentPassword, newPassword, confirmNewPassword) ==
    IF currentPassword = <<>> \/ newPassword = <<>> \/ confirmNewPassword = <<>>
    THEN "Please fill in all password fields."
    ELSE IF Len(newPassword) < 4
    THEN "New password must be at least 4 characters long."
    ELSE IF newPassword # confirmNewPassword THEN "New passwords do not match."
    ELSE IF currentPassword # facility.password THEN "Current password is incorrect."
    ELSE ""

\* changePassword up to its await, with a facility logged in.  stored and
\* history.change are not program state: the facility as it is stored at the
\* call, and what was entered at the call.
ChangeStart(t, currentPassword, newPassword, confirmNewPassword) ==
    LET message == ChangeError(currentFacility[1], currentPassword, newPassword,
                               confirmNewPassword)
    IN /\ FreeTask(t)
       /\ currentFacility # <<>>
       /\ IF message # ""
          THEN /\ notification' = Notify("error", message)
               /\ UNCHANGED <<task, issued, used>>
          ELSE /\ Start(t, [op |-> "changePassword", pc |-> "update",
                             id |-> currentFacility[1].id,
                             password |-> newPassword,
                             confirm |-> confirmNewPassword,
                             stored |-> GetFacility(dbFacilities, currentFacility[1].id)])
               /\ used' = [used EXCEPT !.changes = @ + 1]
               /\ UNCHANGED notification
       /\ history' = [history EXCEPT !.change = [currentPassword |-> currentPassword,
                                                 newPassword |-> newPassword,
                                                 confirmNewPassword |-> confirmNewPassword]]
       /\ UNCHANGED <<storeVars, children, unsavedVaccinations, modalVars, viewVars,
                      backupFile, now, facilityName, accountVars, restoreFile>>

\* await db.facilities.update(...) and the rest of changePassword; the
\* assignment to currentFacility.password throws when currentFacility is null
ChangeUpdate(t, fails) ==
    /\ task[t].op = "changePassword"
    /\ Ready(t)
    /\ CountFailure(fails)
    /\ IF fails
       THEN /\ notification' =
                   Notify("error", "Error changing password. Please try again.")
            /\ UNCHANGED <<dbFacilities, currentFacility>>
       ELSE /\ dbFacilities' = UpdatePassword(dbFacilities, task[t].id, task[t].password)
            /\ IF currentFacility = <<>>
               THEN /\ notification' =
                           Notify("error", "Error changing password. Please try again.")
                    /\ UNCHANGED currentFacility
               ELSE /\ currentFacility' =
                           <<[currentFacility[1] EXCEPT !.password = task[t].password]>>
                    /\ notification' = Notify("success", "Password changed successfully!")
    /\ task' = [task EXCEPT ![t] = Idle]
    /\ UNCHANGED <<storeVars, children, unsavedVaccinations, modalVars, viewVars,
                   backupFile, now, facilityName, dbSessions, nextFacilityId,
                   nextSessionId, recoveryFacility, recoveryStep, recoveryForm,
                   screen, restoreFile, history>>
    /\ Resumed(t)

(***************************************************************************)
(* initApp of App.js: the session is resumed on a cold start.              *)
(***************************************************************************)
\* db.sessions.orderBy('loggedInAt').first(), without the reverse()
oldestSession(table) ==
    IF table = {} THEN <<>>
    ELSE <<CHOOSE s \in table :
              \A other \in table :
                  \/ s.loggedInAt < other.loggedInAt
                  \/ s.loggedInAt = other.loggedInAt /\ s.id <= other.id>>

\* db.sessions.orderBy('loggedInAt').reverse().first(): the index is ordered
\* by loggedInAt and then by id; <<>> is undefined
newestSession(table) ==
    IF table = {} THEN <<>>
    ELSE <<CHOOSE s \in table :
              \A other \in table :
                  \/ s.loggedInAt > other.loggedInAt
                  \/ s.loggedInAt = other.loggedInAt /\ s.id >= other.id>>

\* the catch block, showLoginScreen() outside it, and the finally block
ResumeEndsLoggedOut(t) ==
    /\ screen' = "login"
    /\ task' = [task EXCEPT ![t] = Idle]

\* initApp up to its first await; the page calls it once, when it has loaded
ResumeStart(t) ==
    /\ used.resumes = 0
    /\ FreeTask(t)
    /\ Start(t, [op |-> "resume", pc |-> "session"])
    /\ used' = [used EXCEPT !.resumes = 1]
    /\ UNCHANGED <<storeVars, children, unsavedVaccinations, modalVars, viewVars,
                   notification, backupFile, now, restVars>>

\* await db.sessions.orderBy('loggedInAt').reverse().first(), up to the call
\* of db.facilities.get
ResumeSession(t, fails) ==
    /\ task[t].op = "resume"
    /\ task[t].pc = "session"
    /\ Ready(t)
    /\ CountFailure(fails)
    /\ LET session == newestSession(dbSessions)
       IN IF fails \/ session = <<>>
          THEN ResumeEndsLoggedOut(t)
          ELSE /\ task' = [task EXCEPT ![t] =
                              [facilityId |-> session[1].facilityId]
                              @@ [@ EXCEPT !.pc = "get"]]
               /\ UNCHANGED screen
    /\ UNCHANGED <<storeVars, children, unsavedVaccinations, modalVars, viewVars,
                   notification, backupFile, now, facilityName, dbFacilities,
                   dbSessions, nextFacilityId, nextSessionId, currentFacility,
                   recoveryFacility, recoveryStep, recoveryForm, restoreFile, history>>
    /\ Resumed(t)

\* currentFacility = await db.facilities.get(session.facilityId), showMainApp()
\* and the call of loadFacilityData()
ResumeFacility(t, fails) ==
    /\ task[t].op = "resume"
    /\ task[t].pc = "get"
    /\ Ready(t)
    /\ CountFailure(fails)
    /\ IF fails
       THEN /\ ResumeEndsLoggedOut(t)
            /\ UNCHANGED currentFacility
       ELSE LET got == GetFacility(dbFacilities, task[t].facilityId)
            IN /\ currentFacility' = got
               /\ IF got = <<>>
                  THEN ResumeEndsLoggedOut(t)
                  ELSE /\ screen' = "main"
                       /\ task' = [task EXCEPT ![t].pc = "load"]
    /\ UNCHANGED <<storeVars, children, unsavedVaccinations, modalVars, viewVars,
                   notification, backupFile, now, facilityName, dbFacilities,
                   dbSessions, nextFacilityId, nextSessionId, recoveryFacility,
                   recoveryStep, recoveryForm, restoreFile, history>>
    /\ Resumed(t)

\* await loadFacilityData() and the return.  What loadFacilityData loads
\* into the page is not modelled; it writes no table.
ResumeLoad(t, fails) ==
    /\ task[t].op = "resume"
    /\ task[t].pc = "load"
    /\ Ready(t)
    /\ CountFailure(fails)
    /\ IF fails
       THEN ResumeEndsLoggedOut(t)
       ELSE /\ task' = [task EXCEPT ![t] = Idle]
            /\ UNCHANGED screen
    /\ UNCHANGED <<storeVars, children, unsavedVaccinations, modalVars, viewVars,
                   notification, backupFile, now, facilityName, dbFacilities,
                   dbSessions, nextFacilityId, nextSessionId, currentFacility,
                   recoveryFacility, recoveryStep, recoveryForm, restoreFile, history>>
    /\ Resumed(t)

(***************************************************************************)
(* The child table: filterChildren and the buttons of its rows.            *)
(***************************************************************************)
\* the characters of a child's name
NameChars(n) ==
    CASE n = "amy" -> <<"a", "m", "y">>
      [] n = "Amy" -> <<"A", "m", "y">>
      [] n = "bob" -> <<"b", "o", "b">>

\* s.includes(term)
includes(s, term) ==
    \E i \in 0..(Len(s) - Len(term)) : SubSeq(s, i + 1, i + Len(term)) = term

\* children.filter(child => child.name.toLowerCase().includes(searchTerm) ||
\* child.regNo.includes(searchTerm))
Matching(chs, searchTerm) ==
    SelectSeq(chs, LAMBDA child :
                      \/ includes(StrToLowerCase(NameChars(child.name)), searchTerm)
                      \/ includes(child.regNo, searchTerm))

\* filterChildren(), value the text of #search
filterChildren(value) ==
    /\ childTable' = updateChildTable(Matching(children, StrToLowerCase(value)))
    /\ UNCHANGED <<storeVars, children, unsavedVaccinations, modalVars, statsCounters,
                   defaultersTable, dueSoonTable, upcomingTable, notification,
                   backupFile, task, issued, now, restVars, used>>

\* openEditChildModal(index), from a row of the child table
openEditChildModal(index) ==
    /\ index \in 0..(Len(children) - 1)
    /\ editChildIndex' = index
    /\ UNCHANGED <<storeVars, children, unsavedVaccinations, selectedChildIndex,
                   immunizationModal, bookingModal, viewVars, notification, backupFile,
                   task, issued, now, restVars, used>>

\* saveEditedChild() up to its await: the fields of the form are written into
\* the in-memory child first
EditSubmit(t, name, dob) ==
    /\ FreeTask(t)
    /\ ChildAt(children, editChildIndex) # <<>>
    /\ children' = [children EXCEPT ![editChildIndex + 1].name = name,
                                    ![editChildIndex + 1].dob = dob]
    /\ Start(t, [op |-> "edit", pc |-> "update",
                 id |-> children[editChildIndex + 1].id, name |-> name, dob |-> dob])
    /\ used' = [used EXCEPT !.edits = @ + 1]
    /\ UNCHANGED <<storeVars, unsavedVaccinations, modalVars, viewVars, notification,
                   backupFile, now, restVars>>

\* await db.children.update(child.id, { name, dob, ... }), then the table is
\* rendered; the catch only shows a notification
EditUpdate(t, fails) ==
    /\ task[t].op = "edit"
    /\ Ready(t)
    /\ CountFailure(fails)
    /\ \/ /\ ~fails
          /\ dbChildren' = {IF c.id = task[t].id
                            THEN [c EXCEPT !.name = task[t].name, !.dob = task[t].dob]
                            ELSE c : c \in dbChildren}
          /\ RenderChildTable(children)
          /\ notification' = Notify("success", "Child details updated successfully!")
       \/ /\ fails
          /\ notification' =
                 Notify("error", "Error updating child details. Please try again.")
          /\ UNCHANGED <<dbChildren, childTable>>
    /\ task' = [task EXCEPT ![t] = Idle]
    /\ UNCHANGED <<dbVaccinations, dbFacility, nextChildId, nextVaccId, children,
                   unsavedVaccinations, modalVars, statsCounters, defaultersTable,
                   dueSoonTable, upcomingTable, backupFile, now, restVars>>
    /\ Resumed(t)

(***************************************************************************)
(* clearAllData.                                                           *)
(***************************************************************************)
\* clearAllData, confirmed, up to its await
ClearStart(t) ==
    /\ FreeTask(t)
    /\ Start(t, [op |-> "clearAllData", pc |-> "transaction"])
    /\ used' = [used EXCEPT !.clears = @ + 1]
    /\ UNCHANGED <<storeVars, children, unsavedVaccinations, modalVars, viewVars,
                   notification, backupFile, now, restVars>>

\* await db.transaction('rw', db.children, db.vaccinations, db.facility, ...)
\* and the rest of clearAllData
ClearTransaction(t, fails) ==
    /\ task[t].op = "clearAllData"
    /\ Ready(t)
    /\ CountFailure(fails)
    /\ IF fails
       THEN /\ notification' =
                   Notify("error", "Error clearing data. Please try again.")
            /\ UNCHANGED <<storeVars, children, viewVars, facilityName>>
       ELSE /\ dbChildren' = {}
            /\ dbVaccinations' = {}
            /\ dbFacility' = {}
            /\ children' = <<>>
            /\ facilityName' = ""
            /\ RefreshStats(children')
            /\ updateAllTables(children')
            /\ RenderChildTable(children')
            /\ notification' = Notify("success", "All data has been cleared.")
            /\ UNCHANGED <<nextChildId, nextVaccId>>
    /\ task' = [task EXCEPT ![t] = Idle]
    /\ UNCHANGED <<unsavedVaccinations, modalVars, backupFile, now, accountVars,
                   restoreFile, history>>
    /\ Resumed(t)

(***************************************************************************)
(* Scenarios.  A scenario is the application driven by a bounded user: b   *)
(* says how many handlers of each kind the user starts, what is typed, and *)
(* how many awaited storage operations reject.                             *)
(***************************************************************************)
\* whether an awaited operation may reject under budget b
Outcome(b, fails) == fails => used.failures < b.failures

\* the dates picked in #dob: the day before today where a scenario does not
\* say
BirthDays(b) == IF "dobs" \in DOMAIN b THEN b.dobs ELSE {Today - 1}

Register(b) == \E t \in Tasks, childName \in b.names, dob \in BirthDays(b) :
                   used.regs < b.regs /\ RegSubmit(t, childName, dob)

OpenModal(b) == \E index \in 0..(b.regs - 1) : openImmunizationModal(index)

\* the user types into the modal while no save is in flight: a save reads the
\* rows once more after its delete, and finds them as they were at its start.
\* With lateEdits the user also types while a save is in flight that has read
\* the rows already.
Edit(b) ==
    \E vaccine \in b.vaccines, row \in b.rows :
        /\ \A u \in Tasks :
              task[u].op = "save" => (b.lateEdits /\ task[u].pc # "delete")
        /\ EditRow(vaccine, row)

\* a scenario whose saves do not overlap starts one only when none is in flight
MaySave(b) ==
    /\ used.saves < b.saves
    /\ b.overlappingSaves \/ \A u \in Tasks : task[u].op # "save"

SaveWithoutBooking(b) == \E t \in Tasks : MaySave(b) /\ SaveNoBooking(t)

SaveWithBooking(b) ==
    \E t \in Tasks, nextVisitDate \in b.dates, ticked \in SUBSET b.bookable :
        MaySave(b) /\ SaveBooking(t, nextVisitDate, ticked)

Delete(b) == \E t \in Tasks, index \in 0..(b.regs - 1) :
                 used.deletes < b.deletes /\ DeleteStart(t, index)

Backup(b) == \E t \in Tasks : used.backups < b.backups /\ BackupStart(t)

AwaitRegAdd(b) ==
    \E t \in Tasks, fails \in BOOLEAN : Outcome(b, fails) /\ RegAdd(t, fails)

AwaitSaveDelete(b) ==
    \E t \in Tasks, fails \in BOOLEAN : Outcome(b, fails) /\ SaveDelete(t, fails)

AwaitSaveAdds(b) ==
    \E t \in Tasks, fails \in BOOLEAN : Outcome(b, fails) /\ SaveAdds(t, fails)

AwaitSaveReload(b) ==
    \E t \in Tasks, fails \in BOOLEAN : Outcome(b, fails) /\ SaveReload(t, fails)

AwaitSaveUpdate(b) ==
    \E t \in Tasks, fails \in BOOLEAN : Outcome(b, fails) /\ SaveUpdate(t, fails)

AwaitDeleteTransaction(b) ==
    \E t \in Tasks, fails \in BOOLEAN : Outcome(b, fails) /\ DeleteTransaction(t, fails)

AwaitBackupChildren(b) ==
    \E t \in Tasks, fails \in BOOLEAN : Outcome(b, fails) /\ BackupChildren(t, fails)

AwaitBackupVaccinations(b) ==
    \E t \in Tasks, fails \in BOOLEAN : Outcome(b, fails) /\ BackupVaccinations(t, fails)

AwaitBackupFacility(b) ==
    \E t \in Tasks, fails \in BOOLEAN : Outcome(b, fails) /\ BackupFacility(t, fails)

SaveFacilityName(b) ==
    \E t \in Tasks, name \in b.facilityNames :
        used.facilityNames < b.facilityNameSaves /\ FacilityNameSubmit(t, name)

AwaitFacilityNamePut(b) ==
    \E t \in Tasks, fails \in BOOLEAN : Outcome(b, fails) /\ FacilityNamePut(t, fails)

\* a backup document written on another device: one child with one given
\* dose, and no facility key
ForeignDocument ==
    [children |-> <<[id |-> 1, regNo |-> RegNoOf(1, BaseYear), name |-> "bob",
                     isDefaulter |-> FALSE, createdAt |-> toJSON(DateMs(Today - 1))]>>,
     vaccinations |-> <<[id |-> 1] @@ RowRecord(1, vaccinationSchedule[1], FullRow)>>]

\* the files the user may choose: the backup just downloaded, the document of
\* the other device, and each of them with one key taken out
RestoreDocuments(b) ==
    LET whole == {ForeignDocument}
                 \cup (IF backupFile.made THEN {BackupDocument(backupFile)} ELSE {})
    IN whole \cup {WithoutKey(data, key) : data \in whole, key \in b.missingKeys}

ChooseFile(b) ==
    \E data \in RestoreDocuments(b) : used.restores < b.restores /\ ChooseRestoreFile(data)

\* the file is handled while no other handler is in flight
OnloadRestore(b) ==
    \E t \in Tasks, confirmed \in BOOLEAN :
        /\ \A u \in Tasks : task[u].op = "idle"
        /\ RestoreOnload(t, confirmed)

AwaitRestoreTransaction(b) ==
    \E t \in Tasks, fails \in BOOLEAN : Outcome(b, fails) /\ RestoreTransaction(t, fails)

AwaitInitAppFacility(b) ==
    \E t \in Tasks, fails \in BOOLEAN : Outcome(b, fails) /\ InitAppFacility(t, fails)

AwaitInitAppChildren(b) ==
    \E t \in Tasks, fails \in BOOLEAN : Outcome(b, fails) /\ InitAppChildren(t, fails)

AwaitInitAppVaccinations(b) ==
    \E t \in Tasks, fails \in BOOLEAN : Outcome(b, fails) /\ InitAppVaccinations(t, fails)

\* the user starts one handler at a time, and uses the register only while
\* every child of the list has its vaccinations (after a load that failed the
\* page is to be refreshed)
Usable ==
    /\ \A u \in Tasks : task[u].op = "idle"
    /\ \A i \in DOMAIN children : "vaccinations" \in DOMAIN children[i]

SaveBounds == [names |-> {"amy"}, regs |-> SaveRegs, saves |-> SaveSaves,
               deletes |-> 0, backups |-> 0, failures |-> SaveFailures,
               overlappingSaves |-> TRUE, lateEdits |-> FALSE,
               vaccines |-> {vaccinationSchedule[1]}, rows |-> RowChoices,
               bookable |-> Vaccines,
               dates |-> BookDates]

\* one child whose doses are saved again and again, two saves at a time
NextSave ==
    \/ Register(SaveBounds)
    \/ AwaitRegAdd(SaveBounds)
    \/ OpenModal(SaveBounds)
    \/ closeModal
    \/ Edit(SaveBounds)
    \/ openBookingModal
    \/ closeBookingModal
    \/ SaveWithoutBooking(SaveBounds)
    \/ SaveWithBooking(SaveBounds)
    \/ AwaitSaveDelete(SaveBounds)
    \/ AwaitSaveAdds(SaveBounds)
    \/ AwaitSaveReload(SaveBounds)
    \/ AwaitSaveUpdate(SaveBounds)

SpecSave == Init /\ [][NextSave]_vars

(***************************************************************************)
(* Properties of saveImmunization (SpecSave).                              *)
(***************************************************************************)
\* slot t holds a save that ends in this step because an awaited operation
\* rejected
SaveFailsAt(t, pc) ==
    /\ task[t].op = "save"
    /\ task[t].pc = pc
    /\ task'[t].op = "idle"
    /\ used'.failures > used.failures

\* slot t holds a save that completes in this step
SaveCompletes(t) ==
    /\ task[t].op = "save"
    /\ task[t].pc = "update"
    /\ task'[t].op = "idle"
    /\ used'.failures = used.failures

\* the table holds for child id exactly the records of adds, one each
HoldsExactly(table, id, adds) ==
    /\ Contents(DosesIn(table, id)) = Range(adds)
    /\ Cardinality(DosesIn(table, id)) = Len(adds)

\* C1: when a save fails after its delete and before all its records are
\* inserted, the store still holds the dose set the child had before the save:
\* the prior set is not gone and no part of the new set is stored.
C1_FailedSaveKeepsPriorDoses ==
    [][\A t \in Tasks :
          SaveFailsAt(t, "adds") =>
              Contents(DosesIn(dbVaccinations', task[t].childId)) = task[t].prior]_vars

\* C2: when a save that no other handler overlapped completes, the store holds
\* for the child exactly the submitted records, one each and none from before,
\* and the in-memory child carries the same records; this is so whatever was
\* stored before, so the same save repeated leaves the same set.
C2_SaveReplacesDoseSet ==
    [][\A t \in Tasks :
          (SaveCompletes(t) /\ task[t].alone) =>
              /\ HoldsExactly(dbVaccinations', task[t].childId, task[t].adds)
              /\ \E i \in DOMAIN children' :
                    /\ children'[i].id = task[t].childId
                    /\ HoldsExactly(Range(children'[i].vaccinations),
                                    task[t].childId, task[t].adds)
                    /\ Len(children'[i].vaccinations) = Len(task[t].adds)]_vars

\* a save nothing overlapped has replaced a non-empty dose set by a different
\* non-empty one and is about to complete
C2_Witness ==
    \E t \in Tasks :
        /\ task[t].op = "save"
        /\ task[t].pc = "update"
        /\ task[t].alone
        /\ task[t].prior # {}
        /\ task[t].adds # <<>>
        /\ task[t].prior # Range(task[t].adds)
        /\ HoldsExactly(dbVaccinations, task[t].childId, task[t].adds)

\* C3: two overlapping saves of one child are serialized: once both have
\* written, the store holds exactly the dose set of one of them.
C3_OverlappingSavesSerialized ==
    \A t, u \in Tasks :
        (/\ t # u
         /\ task[t].op = "save" /\ task[t].pc \in {"reload", "update"}
         /\ task[u].op = "save" /\ task[u].pc \in {"reload", "update"}
         /\ task[t].childId = task[u].childId)
        => \/ HoldsExactly(dbVaccinations, task[t].childId, task[t].adds)
           \/ HoldsExactly(dbVaccinations, task[u].childId, task[u].adds)

\* a record with a date given is completed and has no next visit; a booked
\* record is scheduled
GivenAndBookedShape(v) ==
    /\ v.dateGiven # NoDate => (v.status = "completed" /\ v.nextVisit = NoDate)
    /\ (v.nextVisit # NoDate /\ v.dateGiven = NoDate) => v.status = "scheduled"

\* C11 as claimed: every stored dose record with a date given is completed
\* and has no next visit, every booked one is scheduled, and no record is
\* stored that has neither a date given nor a next visit.
C11_NoRecordWithoutDate ==
    \A v \in dbVaccinations :
        /\ GivenAndBookedShape(v)
        /\ v.dateGiven # NoDate \/ v.nextVisit # NoDate

\* C11 as amended: every stored dose record with a date given is completed
\* and has no next visit, every booked one is scheduled, a record with
\* neither is pending, and no record is stored whose date given, batch
\* number, place given, remarks and next visit are all empty.
C11_DoseRecordShape ==
    \A v \in dbVaccinations :
        /\ GivenAndBookedShape(v)
        /\ (v.dateGiven = NoDate /\ v.nextVisit = NoDate) => v.status = "pending"
        /\ \/ v.dateGiven # NoDate
           \/ v.nextVisit # NoDate
           \/ v.batchNumber # ""
           \/ v.placeGiven # ""
           \/ v.remarks # ""

\* a save has completed that stored a pending record and a scheduled one
C11_Witness ==
    /\ notification = Notify("success", "Immunization data saved successfully!")
    /\ \E v, w \in dbVaccinations :
          /\ v.status = "pending"
          /\ w.status = "scheduled"
          /\ v.childId = w.childId

\* C12: when a save completes, the isDefaulter flag of the stored child record
\* and of the in-memory child is true exactly when one of the doses the save
\* submitted is overdue: no date given and a next visit before now.
C12_DefaulterFlagAfterSave ==
    [][\A t \in Tasks :
          SaveCompletes(t) =>
              LET overdue == \E i \in DOMAIN task[t].adds : IsMissed(task[t].adds[i], now)
              IN /\ \E c \in dbChildren' : c.id = task[t].childId
                 /\ \A c \in dbChildren' :
                       c.id = task[t].childId => (c.isDefaulter <=> overdue)
                 /\ \A i \in DOMAIN children' :
                       children'[i].id = task[t].childId =>
                           (children'[i].isDefaulter <=> overdue)]_vars

(***************************************************************************)
(* Reads during a save (SpecRead): one child, saves one after the other,   *)
(* and a backup that may run at any time.                                  *)
(***************************************************************************)
ReadBounds == [names |-> {"amy"}, regs |-> 1, saves |-> ReadSaves,
               deletes |-> 0, backups |-> ReadBackups, failures |-> 0,
               overlappingSaves |-> FALSE, lateEdits |-> FALSE,
               vaccines |-> {vaccinationSchedule[1]}, rows |-> {EmptyRow, FullRow},
               bookable |-> {}, dates |-> {}]

NextRead ==
    \/ Register(ReadBounds)
    \/ AwaitRegAdd(ReadBounds)
    \/ OpenModal(ReadBounds)
    \/ closeModal
    \/ Edit(ReadBounds)
    \/ SaveWithoutBooking(ReadBounds)
    \/ AwaitSaveDelete(ReadBounds)
    \/ AwaitSaveAdds(ReadBounds)
    \/ AwaitSaveReload(ReadBounds)
    \/ AwaitSaveUpdate(ReadBounds)
    \/ Backup(ReadBounds)
    \/ AwaitBackupChildren(ReadBounds)
    \/ AwaitBackupVaccinations(ReadBounds)
    \/ AwaitBackupFacility(ReadBounds)

SpecRead == Init /\ [][NextRead]_vars

\* slot t holds a backup whose read of db.vaccinations returns in this step
BackupReadsVaccinations(t) ==
    /\ task[t].op = "backup"
    /\ task[t].pc = "vaccinations"
    /\ task'[t].op = "backup"
    /\ task'[t].pc = "facility"

\* C4: a backup that reads the doses while a save of a child is in progress
\* reads for that child the whole dose set from before the save or the whole
\* submitted set, never an empty or partly inserted one.
C4_ReadSeesOldOrNewDoseSet ==
    [][\A t, s \in Tasks :
          (BackupReadsVaccinations(t) /\ task[s].op = "save") =>
              LET read == DosesIn(Range(task'[t].vaccinations), task[s].childId)
              IN \/ Contents(read) = task[s].prior
                 \/ HoldsExactly(read, task[s].childId, task[s].adds)]_vars

(***************************************************************************)
(* The unsaved-edit buffer (SpecBuffer): one child, dates typed before    *)
(* and while a save is in flight, and the booking modal.                   *)
(***************************************************************************)
BufferBounds == [names |-> {"amy"}, regs |-> BufferRegs, saves |-> BufferSaves,
                 deletes |-> 0, backups |-> 0, failures |-> 0,
                 overlappingSaves |-> FALSE, lateEdits |-> TRUE,
                 vaccines |-> Vaccines, rows |-> {EmptyRow, FullRow},
                 bookable |-> Vaccines, dates |-> {Today + 3}]

NextBuffer ==
    \/ Register(BufferBounds)
    \/ AwaitRegAdd(BufferBounds)
    \/ OpenModal(BufferBounds)
    \/ closeModal
    \/ Edit(BufferBounds)
    \/ openBookingModal
    \/ closeBookingModal
    \/ SaveWithoutBooking(BufferBounds)
    \/ SaveWithBooking(BufferBounds)
    \/ AwaitSaveDelete(BufferBounds)
    \/ AwaitSaveAdds(BufferBounds)
    \/ AwaitSaveReload(BufferBounds)
    \/ AwaitSaveUpdate(BufferBounds)

SpecBuffer == Init /\ [][NextBuffer]_vars

\* the buffer holds a date for the vaccine of the child
HasUnsavedDate(child, vaccine) ==
    \E e \in unsavedVaccinations :
        /\ e.childKey = ChildKey(child)
        /\ e.vaccine = vaccine
        /\ e.date # NoDate

\* the child has a given or a booked dose of the vaccine
Dosed(child, vaccine) ==
    \E w \in Range(child.vaccinations) :
        /\ w.vaccine = vaccine
        /\ w.dateGiven # NoDate \/ w.nextVisit # NoDate

\* C16: when the booking modal is opened for a child, a vaccine with a date in
\* the child's buffer is not offered; a vaccine whose buffered date a save has
\* dropped, with no date in the buffer now, is offered if the child has no
\* given and no booked dose of it.
C16_BufferedVaccineNotBookable ==
    [][(/\ ~bookingModal.open
        /\ bookingModal'.open
        /\ ChildAt(children, selectedChildIndex) # <<>>)
       => LET child == ChildAt(children, selectedChildIndex)[1]
          IN \A v \in Vaccines :
                /\ HasUnsavedDate(child, v) => v \notin bookingModal'.offered
                /\ (/\ <<ChildKey(child), v>> \in history.dropped
                    /\ ~HasUnsavedDate(child, v)
                    /\ ~Dosed(child, v))
                   => v \in bookingModal'.offered]_vars

\* no save is in flight and the booking modal is open for a child: one vaccine
\* has a date in the buffer and is not offered, another had its buffered date
\* dropped by a save, is still without a dose, and is offered
C16_Witness ==
    /\ bookingModal.open
    /\ \A u \in Tasks : task[u].op = "idle"
    /\ ChildAt(children, selectedChildIndex) # <<>>
    /\ LET child == ChildAt(children, selectedChildIndex)[1]
       IN \E v, w \in Vaccines :
             /\ HasUnsavedDate(child, v)
             /\ v \notin bookingModal.offered
             /\ <<ChildKey(child), w>> \in history.dropped
             /\ ~Dosed(child, w)
             /\ w \in bookingModal.offered

(***************************************************************************)
(* Restore (SpecRestore): a register with a child, a dose and a facility   *)
(* name, a backup of it, and restores of documents with and without their  *)
(* keys.                                                                   *)
(***************************************************************************)
RestoreBounds == [names |-> {"amy"}, regs |-> RestoreRegs, saves |-> RestoreSaves,
                  deletes |-> 0, backups |-> RestoreBackups,
                  failures |-> RestoreFailures, overlappingSaves |-> FALSE,
                  lateEdits |-> FALSE,
                  vaccines |-> {vaccinationSchedule[1]}, rows |-> {EmptyRow, FullRow},
                  bookable |-> {}, dates |-> {},
                  restores |-> RestoreRestores,
                  missingKeys |-> {"children", "vaccinations", "facility"},
                  facilityNames |-> {"clinic"}, facilityNameSaves |-> RestoreNames]

NextRestore ==
    \/ Usable /\ Register(RestoreBounds)
    \/ AwaitRegAdd(RestoreBounds)
    \/ Usable /\ OpenModal(RestoreBounds)
    \/ Usable /\ Edit(RestoreBounds)
    \/ Usable /\ SaveWithoutBooking(RestoreBounds)
    \/ AwaitSaveDelete(RestoreBounds)
    \/ AwaitSaveAdds(RestoreBounds)
    \/ AwaitSaveReload(RestoreBounds)
    \/ AwaitSaveUpdate(RestoreBounds)
    \/ Usable /\ SaveFacilityName(RestoreBounds)
    \/ AwaitFacilityNamePut(RestoreBounds)
    \/ Usable /\ Backup(RestoreBounds)
    \/ AwaitBackupChildren(RestoreBounds)
    \/ AwaitBackupVaccinations(RestoreBounds)
    \/ AwaitBackupFacility(RestoreBounds)
    \/ ChooseFile(RestoreBounds)
    \/ OnloadRestore(RestoreBounds)
    \/ AwaitRestoreTransaction(RestoreBounds)
    \/ AwaitInitAppFacility(RestoreBounds)
    \/ AwaitInitAppChildren(RestoreBounds)
    \/ AwaitInitAppVaccinations(RestoreBounds)

SpecRestore == Init /\ [][NextRestore]_vars

InvalidBackupNotification ==
    Notify("error", "Invalid backup file. Please upload a valid JSON file.")

\* C13: when reader.onload handles a document without the children key or
\* without the vaccinations key, it shows the error and ends: the three tables
\* and the in-memory list are unchanged and no restore is started.
C13_MissingKeyRejected ==
    [][(/\ restoreFile # <<>>
        /\ restoreFile' = <<>>
        /\ \/ "children" \notin DOMAIN restoreFile[1]
           \/ "vaccinations" \notin DOMAIN restoreFile[1])
       => /\ notification' = InvalidBackupNotification
          /\ dbChildren' = dbChildren
          /\ dbVaccinations' = dbVaccinations
          /\ dbFacility' = dbFacility
          /\ children' = children
          /\ task' = task]_vars

\* a document without one of the two keys was rejected (no storage operation
\* has failed) and the register still holds its child, dose and facility name
C13_Witness ==
    /\ history.restore = "rejected"
    /\ notification = InvalidBackupNotification
    /\ used.failures = 0
    /\ dbChildren # {}
    /\ dbVaccinations # {}
    /\ dbFacility # {}
    /\ children # <<>>

\* the three tables hold exactly the records of the document
HoldsDocument(data, storedChildren, storedVaccinations, storedFacility) ==
    /\ storedChildren = Range(data.children)
    /\ storedVaccinations = Range(data.vaccinations)
    /\ storedFacility = IF "facility" \in DOMAIN data THEN Range(data.facility) ELSE {}

\* C14: when the transaction of a restore fails, the three tables keep their
\* contents; when it commits, and when the restore ends with its success
\* notification, the three tables hold exactly the records of the document.
C14_RestoreAtomic ==
    [][\A t \in Tasks :
          /\ (task[t].op = "restore" /\ task[t].pc = "transaction" /\ task'[t] # task[t])
             => IF used'.failures > used.failures
                THEN /\ dbChildren' = dbChildren
                     /\ dbVaccinations' = dbVaccinations
                     /\ dbFacility' = dbFacility
                ELSE HoldsDocument(task[t].data, dbChildren', dbVaccinations', dbFacility')
          /\ (/\ task[t].op = "restore"
              /\ task'[t].op = "idle"
              /\ notification' = Notify("success", "Data restored successfully!"))
             => HoldsDocument(task[t].data, dbChildren', dbVaccinations', dbFacility')]_vars

\* the transaction of a restore has failed and the register still holds its
\* child, dose and facility name
C14_Witness ==
    /\ history.restore = "aborted"
    /\ dbChildren # {}
    /\ dbVaccinations # {}
    /\ dbFacility # {}

\* a restore has ended with its success notification in a register that held
\* other records before: none of them is left
C14_WitnessCommitted ==
    /\ history.restore = "committed"
    /\ notification = Notify("success", "Data restored successfully!")
    /\ HoldsDocument(ForeignDocument, dbChildren, dbVaccinations, dbFacility)
    /\ backupFile.made
    /\ backupFile.facility # <<>>

\* C26: when a restore of the document backupData downloaded commits while the
\* three tables hold what the backup read from them, the three tables hold
\* after it what they held before it: the same records with the same ids and
\* the same fields
C26_BackupRestoreRoundTrip ==
    [][\A t \in Tasks :
          (/\ task[t].op = "restore"
           /\ task[t].pc = "transaction"
           /\ task'[t] # task[t]
           /\ used'.failures = used.failures
           /\ backupFile.made
           /\ task[t].data = BackupDocument(backupFile)
           /\ backupFile.children = SortById(dbChildren)
           /\ backupFile.vaccinations = SortById(dbVaccinations)
           /\ backupFile.facility = SortById(dbFacility))
          => /\ dbChildren' = dbChildren
             /\ dbVaccinations' = dbVaccinations
             /\ dbFacility' = dbFacility]_vars

(***************************************************************************)
(* Facility accounts (SpecFacility): registrations of facilities that may  *)
(* overlap each other and a demo login, a child registered and the data    *)
(* cleared while a facility is logged in.                                  *)
(***************************************************************************)
\* a form that passes validation
ValidForm(code) ==
    [name |-> <<"H", "C">>,
     code |-> code,
     password |-> <<"p", "a", "s", "s">>,
     confirmPassword |-> <<"p", "a", "s", "s">>,
     question1 |-> "What is your favorite color?",
     answer1 |-> <<" ", "B", "l", "u", "e">>,
     question2 |-> "What is your favorite food?",
     answer2 |-> <<"r", "i", "c", "e", " ">>]

\* the forms with one thing wrong
InvalidForms(code) ==
    {[ValidForm(code) EXCEPT !.confirmPassword = <<"p", "a", "s", "S">>],
     [ValidForm(code) EXCEPT !.password = <<"p", "a", "s">>,
                             !.confirmPassword = <<"p", "a", "s">>],
     [ValidForm(code) EXCEPT !.question1 = ""],
     [ValidForm(code) EXCEPT !.answer1 = <<>>],
     [ValidForm(code) EXCEPT !.question2 = ""],
     [ValidForm(code) EXCEPT !.answer2 = <<" ">>]}

\* the codes typed into #newFacilityCode
TypedCodes == {<<" ", "h", "c", "1">>, <<"H", "C", "1">>, <<"d", "e", "m", "o", "0", "0", "1">>}

FacilityForms(b) ==
    {ValidForm(code) : code \in b.codes}
    \cup InvalidForms(CHOOSE code \in b.codes : \A other \in b.codes : Len(code) <= Len(other))

RegisterFacility(b) == \E t \in Tasks, form \in FacilityForms(b) :
    used.facilities < b.facilities /\ FacilitySubmit(t, form)

AwaitFacilityLookup(b) ==
    \E t \in Tasks, fails \in BOOLEAN : Outcome(b, fails) /\ FacilityLookup(t, fails)

AwaitFacilityAdd(b) ==
    \E t \in Tasks, fails \in BOOLEAN : Outcome(b, fails) /\ FacilityAdd(t, fails)

AwaitFacilityGet(b) ==
    \E t \in Tasks, fails \in BOOLEAN : Outcome(b, fails) /\ FacilityGet(t, fails)

AwaitFacilitySession(b) ==
    \E t \in Tasks, fails \in BOOLEAN : Outcome(b, fails) /\ FacilitySession(t, fails)

AwaitFacilityLoad(b) ==
    \E t \in Tasks, fails \in BOOLEAN : Outcome(b, fails) /\ FacilityLoad(t, fails)

DemoLogin(b) == \E t \in Tasks : used.demos < b.demos /\ DemoStart(t)

AwaitDemoLookup(b) ==
    \E t \in Tasks, fails \in BOOLEAN : Outcome(b, fails) /\ DemoLookup(t, fails)

AwaitDemoAdd(b) ==
    \E t \in Tasks, fails \in BOOLEAN : Outcome(b, fails) /\ DemoAdd(t, fails)

AwaitDemoGet(b) ==
    \E t \in Tasks, fails \in BOOLEAN : Outcome(b, fails) /\ DemoGet(t, fails)

ClearAll(b) == \E t \in Tasks : used.clears < b.clears /\ ClearStart(t)

AwaitClearTransaction(b) ==
    \E t \in Tasks, fails \in BOOLEAN : Outcome(b, fails) /\ ClearTransaction(t, fails)

\* a facility is logged in: the register is worked with only then
LoggedIn == currentFacility # <<>>

FacilityBounds == [names |-> {"amy"}, regs |-> FacilityRegs, codes |-> TypedCodes,
                   facilities |-> FacilityAccounts, demos |-> FacilityDemos,
                   clears |-> FacilityClears, failures |-> FacilityFailures]

NextFacility ==
    \/ RegisterFacility(FacilityBounds)
    \/ AwaitFacilityLookup(FacilityBounds)
    \/ AwaitFacilityAdd(FacilityBounds)
    \/ AwaitFacilityGet(FacilityBounds)
    \/ AwaitFacilitySession(FacilityBounds)
    \/ AwaitFacilityLoad(FacilityBounds)
    \/ DemoLogin(FacilityBounds)
    \/ AwaitDemoLookup(FacilityBounds)
    \/ AwaitDemoAdd(FacilityBounds)
    \/ AwaitDemoGet(FacilityBounds)
    \/ LoggedIn /\ Register(FacilityBounds)
    \/ AwaitRegAdd(FacilityBounds)
    \/ LoggedIn /\ ClearAll(FacilityBounds)
    \/ AwaitClearTransaction(FacilityBounds)

SpecFacility == Init /\ [][NextFacility]_vars

\* the record carries the id of the facility that is logged in
OfCurrentFacility(record) ==
    /\ "facilityId" \in DOMAIN record
    /\ record.facilityId = currentFacility[1].id

\* C15: facility isolation: while a facility is logged in, every child and
\* dose record a step adds to the store carries that facility's id, and every
\* child and dose record a step removes from the store belongs to that
\* facility
C15_FacilityIsolation ==
    [][currentFacility # <<>> =>
          /\ \A c \in dbChildren' \ dbChildren : OfCurrentFacility(c)
          /\ \A v \in dbVaccinations' \ dbVaccinations : OfCurrentFacility(v)
          /\ \A c \in dbChildren \ dbChildren' : OfCurrentFacility(c)
          /\ \A v \in dbVaccinations \ dbVaccinations' : OfCurrentFacility(v)]_vars

\* no character of the string is a lower-case letter
IsUpperCased(s) == \A i \in DOMAIN s : \A j \in DOMAIN LowerCase : s[i] # LowerCase[j]

\* C19: no two stored facilities have the same code, and every stored code is
\* upper-cased
C19_CodeUniqueAndUpperCased ==
    /\ \A f, g \in dbFacilities : f.code = g.code => f.id = g.id
    /\ \A f \in dbFacilities : IsUpperCased(f.code)

\* the string has a character that is not white space
NotBlank(s) == \E i \in DOMAIN s : s[i] # " "

\* the form has equal passwords of at least 4 characters, and both security
\* questions and answers
WellFormed(form) ==
    /\ form.password = form.confirmPassword
    /\ Len(form.password) >= 4
    /\ form.question1 # "" /\ NotBlank(form.answer1)
    /\ form.question2 # "" /\ NotBlank(form.answer2)

\* the step is a submission of #newFacilityForm that starts no handler
SubmissionRejected ==
    /\ history'.form # <<>>
    /\ task' = task
    /\ \/ history'.form # history.form
       \/ notification' # notification

\* the step starts the registration handler in slot t
SubmissionAccepted(t) ==
    /\ task[t].op = "idle"
    /\ task'[t].op = "registerFacility"

\* the handler in slot t ends with its success notification
RegistrationSucceeds(t) ==
    /\ task[t].op = "registerFacility"
    /\ task'[t].op = "idle"
    /\ notification' = Notify("success", "Facility registered successfully!")

\* C20: a submission whose passwords differ or are shorter than 4 characters,
\* or that lacks a security question or answer, starts no handler and changes
\* no facility, no session and not the current facility; a handler is
\* started only by a well-formed form, and one whose code was stored when it
\* was submitted ends at its lookup with nothing added; when the handler's get
\* resolves the facility it added becomes the current facility, and when it
\* ends with its success notification that facility and a session for it are
\* stored
C20_RegisterFacilityOutcome ==
    [][/\ (SubmissionRejected /\ ~WellFormed(history'.form)) =>
              UNCHANGED <<dbFacilities, dbSessions, currentFacility, issued>>
       /\ \A t \in Tasks :
              /\ SubmissionAccepted(t) =>
                     /\ WellFormed(history'.form)
                     /\ UNCHANGED <<dbFacilities, dbSessions, currentFacility>>
              /\ (task[t].op = "registerFacility" /\ task[t].taken) =>
                     /\ task[t].pc = "lookup"
                     /\ task'[t] \in {task[t], Idle}
                     /\ task'[t] = Idle =>
                            /\ notification'.type = "error"
                            /\ UNCHANGED <<dbFacilities, dbSessions, currentFacility>>
              /\ (task[t].op = "registerFacility" /\ task[t].pc = "get"
                  /\ task'[t].op = "registerFacility" /\ task'[t].pc = "session") =>
                     /\ currentFacility' # <<>>
                     /\ currentFacility'[1].id = task[t].facilityId
                     /\ currentFacility'[1].code = task[t].record.code
                     /\ currentFacility'[1] \in dbFacilities'
              /\ RegistrationSucceeds(t) =>
                     /\ \E f \in dbFacilities' :
                            f.id = task[t].facilityId /\ f.code = task[t].record.code
                     /\ \E s \in dbSessions' : s.facilityId = task[t].facilityId]_vars

\* a registration has succeeded and another one with the same code has been
\* turned down: the one facility with the code is the current facility, and
\* the one session is for it
C20_Witness ==
    /\ \A t \in Tasks : task[t].op = "idle"
    /\ notification = Notify("error",
                             "Facility code already exists. Please choose a different code.")
    /\ \E f \in dbFacilities :
           /\ dbFacilities = {f}
           /\ currentFacility = <<f>>
           /\ f.code = StrToUpperCase(trim(history.form.code))
           /\ \E s \in dbSessions : dbSessions = {s} /\ s.facilityId = f.id

(***************************************************************************)
(* Password recovery (SpecRecovery): a registered facility and the demo    *)
(* facility, and the recovery form worked through its steps, restarted,    *)
(* with right and wrong codes, answers and passwords.  Only the active     *)
(* step of the form is shown, so a step's button is pressed only while     *)
(* recoveryStep is that step.                                              *)
(***************************************************************************)
\* the codes typed into #recoveryFacilityCode
RecoveryCodes == {<<"h", "c", "1", " ">>, <<"D", "E", "M", "O", "0", "0", "1">>,
                  <<"h", "c", "2">>, <<" ">>}

\* what is typed into one security answer input
AnswerChoices == {<<" ", "b", "L", "U", "E">>, <<"R", "i", "c", "e", " ">>,
                  <<"b", "l", "u", "e", "s">>, <<>>}

\* what is typed into #newPasswordRecovery and #confirmPasswordRecovery
PasswordChoices ==
    {<<<<>>, <<>>>>,
     <<<<"n", "e", "w">>, <<"n", "e", "w">>>>,
     <<<<"n", "e", "w", "1">>, <<"n", "e", "w", "2">>>>,
     <<<<"n", "e", "w", "1">>, <<"n", "e", "w", "1">>>>}

\* every step of the form shown at once
AtAnyStep(step) == TRUE

\* the step of the form that is shown
AtStep(step) == recoveryStep = step

ForgotPassword(b) == used.recoveries < b.recoveries /\ showForgotPasswordForm

VerifyFacility(b) == \E t \in Tasks, typed \in b.recoveryCodes :
    used.verifies < b.verifies /\ VerifyFacilityStart(t, typed)

AwaitVerifyFacilityLookup(b) ==
    \E t \in Tasks, fails \in BOOLEAN : Outcome(b, fails) /\ VerifyFacilityLookup(t, fails)

TypeAnswers(b) == \E first, second \in b.answers : EnterAnswers(<<first, second>>)

ResetPassword(b) == \E t \in Tasks, typed \in b.passwords :
    /\ used.resets < b.resets
    /\ recoveryForm.passwordInputs
    /\ ResetStart(t, typed[1], typed[2])

AwaitResetUpdate(b) ==
    \E t \in Tasks, fails \in BOOLEAN : Outcome(b, fails) /\ ResetUpdate(t, fails)

RecoveryBounds == [codes |-> {<<" ", "h", "c", "1">>}, facilities |-> RecoveryAccounts,
                   demos |-> RecoveryDemos, recoveries |-> RecoveryRestarts,
                   verifies |-> RecoveryVerifies, resets |-> RecoveryResets,
                   failures |-> RecoveryFailures, recoveryCodes |-> RecoveryCodes,
                   answers |-> AnswerChoices, passwords |-> PasswordChoices]

NextRecovery ==
    \/ RegisterFacility(RecoveryBounds)
    \/ AwaitFacilityLookup(RecoveryBounds)
    \/ AwaitFacilityAdd(RecoveryBounds)
    \/ AwaitFacilityGet(RecoveryBounds)
    \/ AwaitFacilitySession(RecoveryBounds)
    \/ AwaitFacilityLoad(RecoveryBounds)
    \/ DemoLogin(RecoveryBounds)
    \/ AwaitDemoLookup(RecoveryBounds)
    \/ AwaitDemoAdd(RecoveryBounds)
    \/ AwaitDemoGet(RecoveryBounds)
    \/ ForgotPassword(RecoveryBounds)
    \/ AtStep(1) /\ VerifyFacility(RecoveryBounds)
    \/ AwaitVerifyFacilityLookup(RecoveryBounds)
    \/ AtStep(2) /\ TypeAnswers(RecoveryBounds)
    \/ AtStep(2) /\ verifySecurityAnswers
    \/ AtStep(3) /\ ResetPassword(RecoveryBounds)
    \/ AwaitResetUpdate(RecoveryBounds)

SpecRecovery == Init /\ [][NextRecovery]_vars

AnswersWrong == Notify("error", "Some answers are incorrect. Please try again.")

AnswersRight ==
    Notify("success",
           "Security questions answered correctly! You can now reset your password.")

\* the step is a call of verifySecurityAnswers at step 2 that shows its result
VerifyAnswersCalled ==
    /\ recoveryStep = 2
    /\ notification' # notification
    /\ notification' \in {AnswersWrong, AnswersRight}

\* C17: a call of verifySecurityAnswers at step 2 moves the form to step 3 if
\* every entered answer, without the white space around it and whatever the
\* case of its letters, is the stored answer of its question, and leaves it
\* at step 2 if one of them is not; no other step moves the form from step 2
\* to step 3
C17_AllAnswersOrNone ==
    [][/\ VerifyAnswersCalled =>
              IF EveryAnswerMatches(recoveryFacility[1], recoveryForm.answers)
              THEN recoveryStep' = 3 /\ notification' = AnswersRight
              ELSE recoveryStep' = 2 /\ notification' = AnswersWrong
       /\ (recoveryStep = 2 /\ recoveryStep' = 3) =>
              /\ VerifyAnswersCalled
              /\ EveryAnswerMatches(recoveryFacility[1], recoveryForm.answers)]_vars

\* the form is at step 2 and says that some answers are incorrect: the first
\* answer entered is right, with white space around it and in another case
\* than the stored one, and the second is wrong
C17_Witness ==
    /\ recoveryStep = 2
    /\ notification = AnswersWrong
    /\ recoveryFacility # <<>>
    /\ Len(recoveryForm.answers) = 2
    /\ recoveryForm.answers[1] # recoveryFacility[1].securityQuestions[1].answer
    /\ AnswerMatches(recoveryForm.answers[1],
                     recoveryFacility[1].securityQuestions[1].answer)
    /\ ~AnswerMatches(recoveryForm.answers[2],
                      recoveryFacility[1].securityQuestions[2].answer)

\* C18: resetPassword changes the stored password of a facility only if,
\* when it was called, verifyFacilityForRecovery had accepted that facility
\* since the form was last opened, and verifySecurityAnswers had since been
\* called with every answer right
C18_ResetOnlyAfterBothSteps ==
    [][\A f \in dbFacilities, g \in dbFacilities' :
          (f.id = g.id /\ f.password # g.password) =>
              \E t \in Tasks :
                  /\ task[t].op = "resetPassword"
                  /\ task'[t].op = "idle"
                  /\ task[t].id = f.id
                  /\ g.password = task[t].password
                  /\ task[t].prior.verified = f.id
                  /\ task[t].prior.answered]_vars

\* the password of a facility has been reset after the form was opened again
\* and worked through for that facility
C18_Witness ==
    /\ notification = Notify("success", "Password reset successfully!")
    /\ used.recoveries > 0
    /\ \E f \in dbFacilities :
           /\ f.password = <<"n", "e", "w", "1">>
           /\ history.verified = f.id
           /\ history.answered

(***************************************************************************)
(* Passwords (SpecPassword): facilities registered from the login screen,  *)
(* the recovery form worked through on it, and changePassword in the main  *)
(* application.                                                            *)
(***************************************************************************)
LoginScreen == screen = "login"

MainApp == screen = "main"

\* what is typed into #currentPassword, #newPasswordChange, #confirmNewPassword
ChangeChoices ==
    {<<<<"p", "a", "s", "s">>, <<"n", "e", "w", "p">>, <<"n", "e", "w", "p">>>>,
     <<<<"p", "a", "s", "s">>, <<"n", "e", "w">>, <<"n", "e", "w">>>>,
     <<<<"p", "a", "s", "s">>, <<"n", "e", "w", "p">>, <<"n", "e", "w", "q">>>>,
     <<<<"P", "a", "s", "s">>, <<"n", "e", "w", "p">>, <<"n", "e", "w", "p">>>>,
     <<<<"n", "e", "w", "p">>, <<"p", "a", "s", "s">>, <<"p", "a", "s", "s">>>>,
     <<<<>>, <<"n", "e", "w", "p">>, <<"n", "e", "w", "p">>>>}

ChangePassword(b) == \E t \in Tasks, typed \in b.changeChoices :
    used.changes < b.changes /\ ChangeStart(t, typed[1], typed[2], typed[3])

AwaitChangeUpdate(b) ==
    \E t \in Tasks, fails \in BOOLEAN : Outcome(b, fails) /\ ChangeUpdate(t, fails)

PasswordBounds == [codes |-> {<<" ", "h", "c", "1">>}, facilities |-> PasswordAccounts,
                   demos |-> PasswordDemos, recoveries |-> 1,
                   verifies |-> PasswordVerifies, resets |-> PasswordResets,
                   changes |-> PasswordChanges, failures |-> PasswordFailures,
                   recoveryCodes |-> {<<"h", "c", "1", " ">>},
                   answers |-> {<<" ", "b", "L", "U", "E">>, <<"R", "i", "c", "e", " ">>},
                   passwords |-> PasswordChoices, changeChoices |-> ChangeChoices]

NextPassword ==
    \/ LoginScreen /\ RegisterFacility(PasswordBounds)
    \/ AwaitFacilityLookup(PasswordBounds)
    \/ AwaitFacilityAdd(PasswordBounds)
    \/ AwaitFacilityGet(PasswordBounds)
    \/ AwaitFacilitySession(PasswordBounds)
    \/ AwaitFacilityLoad(PasswordBounds)
    \/ LoginScreen /\ DemoLogin(PasswordBounds)
    \/ AwaitDemoLookup(PasswordBounds)
    \/ AwaitDemoAdd(PasswordBounds)
    \/ AwaitDemoGet(PasswordBounds)
    \/ LoginScreen /\ ForgotPassword(PasswordBounds)
    \/ LoginScreen /\ AtStep(1) /\ VerifyFacility(PasswordBounds)
    \/ AwaitVerifyFacilityLookup(PasswordBounds)
    \/ LoginScreen /\ AtStep(2) /\ TypeAnswers(PasswordBounds)
    \/ LoginScreen /\ AtStep(2) /\ verifySecurityAnswers
    \/ LoginScreen /\ AtStep(3) /\ ResetPassword(PasswordBounds)
    \/ AwaitResetUpdate(PasswordBounds)
    \/ MainApp /\ ChangePassword(PasswordBounds)
    \/ AwaitChangeUpdate(PasswordBounds)

SpecPassword == Init /\ [][NextPassword]_vars

\* the step is a call of changePassword that starts no update
ChangeRejected ==
    /\ history'.change # <<>>
    /\ task' = task
    /\ \/ history'.change # history.change
       \/ notification' # notification

\* the step is a call of changePassword that goes on to its update, in slot t
ChangeAccepted(t) ==
    /\ task[t].op = "idle"
    /\ task'[t].op = "changePassword"

\* changePassword ends in slot t with its success notification
ChangeSucceeds(t) ==
    /\ task[t].op = "changePassword"
    /\ task'[t].op = "idle"
    /\ notification' = Notify("success", "Password changed successfully!")

\* C21: changePassword goes on to change the stored password only when the
\* current password entered is the stored password of the current facility,
\* and the new password has at least 4 characters and is its confirmation;
\* a call it rejects changes neither the stored facilities nor the in-memory
\* facility; after a success the in-memory facility has the password that is
\* stored for it
C21_ChangePasswordChecked ==
    [][/\ ChangeRejected => UNCHANGED <<dbFacilities, currentFacility, issued>>
       /\ \A t \in Tasks :
              /\ ChangeAccepted(t) =>
                     /\ task'[t].stored # <<>>
                     /\ history'.change.currentPassword = task'[t].stored[1].password
                     /\ Len(history'.change.newPassword) >= 4
                     /\ history'.change.newPassword = history'.change.confirmNewPassword
                     /\ UNCHANGED <<dbFacilities, currentFacility>>
              /\ ChangeSucceeds(t) =>
                     \E f \in dbFacilities' :
                         /\ f.id = currentFacility'[1].id
                         /\ f.password = currentFacility'[1].password]_vars

\* the step changes the stored password of the facility with this id
PasswordChanged(id) ==
    \E f \in dbFacilities, g \in dbFacilities' :
        f.id = id /\ g.id = id /\ f.password # g.password

\* C22: every stored facility password has at least 4 characters, and a
\* stored password is changed only by a resetPassword or changePassword call
\* whose new password has at least 4 characters and is its confirmation
C22_StoredPasswordsLongEnough ==
    /\ [](\A f \in dbFacilities : Len(f.password) >= 4)
    /\ [][\A id \in 1..nextFacilityId :
              PasswordChanged(id) =>
                  \E t \in Tasks :
                      /\ task[t].op \in {"resetPassword", "changePassword"}
                      /\ task'[t].op = "idle"
                      /\ task[t].id = id
                      /\ Len(task[t].password) >= 4
                      /\ task[t].password = task[t].confirm
                      /\ \A g \in dbFacilities' :
                             g.id = id => g.password = task[t].password]_vars

\* the password of a facility has been reset, and a changePassword call with
\* a new password of 3 characters has been turned down
C22_Witness ==
    /\ notification = Notify("error", "New password must be at least 4 characters long.")
    /\ history.change # <<>>
    /\ Len(history.change.newPassword) = 3
    /\ \E f \in dbFacilities : f.password = <<"n", "e", "w", "1">>

(***************************************************************************)
(* Cold start (SpecColdStart): the page is loaded on a database that holds *)
(* some facilities and some sessions, and initApp of App.js runs.          *)
(***************************************************************************)
\* the facilities that may be stored: registered ones, with ids from 1
PossibleFacilities ==
    {[id |-> i, createdAt |-> DateMs(Today)] @@ DemoFacility : i \in 1..ColdStartFacilities}

\* the sessions that may be stored: of a stored facility or of one that is
\* gone, two of them logged in at the same instant
PossibleSessions ==
    {[id |-> 1, facilityId |-> 1, loggedInAt |-> DateMs(Today) - 3],
     [id |-> 2, facilityId |-> 2, loggedInAt |-> DateMs(Today) - 2],
     [id |-> 3, facilityId |-> 1, loggedInAt |-> DateMs(Today) - 2],
     [id |-> 4, facilityId |-> ColdStartFacilities + 1, loggedInAt |-> DateMs(Today) - 1]}

\* the page has just been loaded: nothing in memory, the loading indicator
\* shown, initApp about to run
InitColdStart ==
    /\ InitStore
    /\ InitUi
    /\ dbFacilities \in SUBSET PossibleFacilities
    /\ dbSessions \in SUBSET PossibleSessions
    /\ nextFacilityId = ColdStartFacilities + 1
    /\ nextSessionId = 5
    /\ currentFacility = <<>>
    /\ recoveryFacility = <<>>
    /\ recoveryStep = 1
    /\ recoveryForm = [answers |-> <<>>, passwordInputs |-> TRUE]
    /\ screen = "loading"
    /\ task = [t \in Tasks |-> Idle]
    /\ notification = Notify("info", "")
    /\ children = <<>>
    /\ now = DateMs(Today) + 1
    /\ statsCounters = updateStats(children, now)
    /\ defaultersTable = updateDefaultersTable(children, now)
    /\ dueSoonTable = updateDueSoonTable(children, now)
    /\ upcomingTable = updateUpcomingTable(children, now)
    /\ childTable = updateChildTable(children)

AwaitResumeSession(b) ==
    \E t \in Tasks, fails \in BOOLEAN : Outcome(b, fails) /\ ResumeSession(t, fails)

AwaitResumeFacility(b) ==
    \E t \in Tasks, fails \in BOOLEAN : Outcome(b, fails) /\ ResumeFacility(t, fails)

AwaitResumeLoad(b) ==
    \E t \in Tasks, fails \in BOOLEAN : Outcome(b, fails) /\ ResumeLoad(t, fails)

ColdStartBounds == [failures |-> ColdStartFailures]

NextColdStart ==
    \/ \E t \in Tasks : ResumeStart(t)
    \/ AwaitResumeSession(ColdStartBounds)
    \/ AwaitResumeFacility(ColdStartBounds)
    \/ AwaitResumeLoad(ColdStartBounds)

SpecColdStart == InitColdStart /\ [][NextColdStart]_vars

\* initApp has run to its end
ResumeEnded == used.resumes = 1 /\ \A t \in Tasks : task[t].op = "idle"

\* the stored sessions with the greatest loggedInAt
LatestSessions == {s \in dbSessions : \A other \in dbSessions : s.loggedInAt >= other.loggedInAt}

\* the facility a stored session with the greatest loggedInAt refers to is
\* stored
Resumable(f) == f \in dbFacilities /\ \E s \in LatestSessions : s.facilityId = f.id

\* C23: when initApp's get of the facility resolves with a stored facility,
\* that facility is one a session with the greatest loggedInAt refers to, it
\* becomes the current facility and the main application is shown; when
\* there is no session, or the session found refers to a facility that is
\* not stored, or a lookup fails, initApp ends with the login screen shown,
\* no current facility and no children loaded; and it ends with the main
\* application shown only for such a facility
C23_ColdStartResumesLatestSession ==
    /\ [][\A t \in Tasks :
              /\ (task[t].op = "resume" /\ task'[t].op = "resume" /\ task'[t].pc = "load") =>
                     /\ currentFacility' # <<>>
                     /\ Resumable(currentFacility'[1])
                     /\ screen' = "main"
              /\ (task[t].op = "resume" /\ task[t].pc \in {"session", "get"}
                  /\ task'[t].op = "idle") =>
                     /\ \/ dbSessions = {}
                        \/ used'.failures > used.failures
                        \/ \E s \in LatestSessions :
                               \A f \in dbFacilities : f.id # s.facilityId
                     /\ screen' = "login"
                     /\ currentFacility' = <<>>
                     /\ children' = <<>>]_vars
    /\ [](ResumeEnded =>
              /\ screen \in {"login", "main"}
              /\ screen = "main" => (currentFacility # <<>> /\ Resumable(currentFacility[1]))
              /\ (used.failures = 0 /\ dbSessions # {}
                  /\ \A s \in LatestSessions : \E f \in dbFacilities : f.id = s.facilityId)
                     => screen = "main"
              /\ (dbSessions = {} \/ \A s \in LatestSessions :
                                        \A f \in dbFacilities : f.id # s.facilityId)
                     => (screen = "login" /\ currentFacility = <<>> /\ children = <<>>))

\* initApp has ended on a database with sessions of two facilities logged in
\* at different instants: the facility of the later one is the current
\* facility and the main application is shown
C23_Witness ==
    /\ ResumeEnded
    /\ screen = "main"
    /\ used.failures = 0
    /\ \E s, other \in dbSessions :
           /\ s.loggedInAt > other.loggedInAt
           /\ s.facilityId # other.facilityId
           /\ LatestSessions = {s}
           /\ currentFacility # <<>>
           /\ currentFacility[1].id = s.facilityId
           /\ \E f \in dbFacilities : f.id = other.facilityId

(***************************************************************************)
(* deleteChild (SpecDelete): two children, one with saved doses.           *)
(***************************************************************************)
DeleteBounds == [names |-> {"amy", "bob"}, regs |-> DeleteRegs, saves |-> DeleteSaves,
                 deletes |-> DeleteDeletes, backups |-> 0, failures |-> DeleteFailures,
                 overlappingSaves |-> FALSE, lateEdits |-> FALSE,
                 vaccines |-> {vaccinationSchedule[1]}, rows |-> {EmptyRow, FullRow},
                 bookable |-> {}, dates |-> {}]

NextDelete ==
    \/ Register(DeleteBounds)
    \/ AwaitRegAdd(DeleteBounds)
    \/ OpenModal(DeleteBounds)
    \/ closeModal
    \/ Edit(DeleteBounds)
    \/ SaveWithoutBooking(DeleteBounds)
    \/ AwaitSaveDelete(DeleteBounds)
    \/ AwaitSaveAdds(DeleteBounds)
    \/ AwaitSaveReload(DeleteBounds)
    \/ AwaitSaveUpdate(DeleteBounds)
    \/ Delete(DeleteBounds)
    \/ AwaitDeleteTransaction(DeleteBounds)

SpecDelete == Init /\ [][NextDelete]_vars

\* slot t holds a deleteChild that completes in this step
DeleteEnds(t) ==
    /\ task[t].op = "delete"
    /\ task'[t].op = "idle"

\* C5: deleteChild is all or nothing: when it completes without a failure the
\* child record and every dose of the child are gone from the store; when it
\* fails the store and the in-memory list are as they were.
C5_DeleteAllOrNothing ==
    [][\A t \in Tasks :
          DeleteEnds(t) =>
              IF used'.failures = used.failures
              THEN /\ \A c \in dbChildren' : c.id # task[t].childId
                   /\ DosesIn(dbVaccinations', task[t].childId) = {}
              ELSE /\ dbChildren' = dbChildren
                   /\ dbVaccinations' = dbVaccinations
                   /\ children' = children]_vars

\* a deleteChild of a child with stored doses has failed: the child, its doses
\* and its entry in the list are all still there
C5_Witness ==
    /\ notification = Notify("error", "Error deleting child. Please try again.")
    /\ \E c \in dbChildren :
          /\ DosesOf(c.id) # {}
          /\ \E i \in DOMAIN children : children[i].id = c.id

\* C32: once every handler has ended, the childId of every stored dose is the
\* id of a stored child
C32_DosesBelongToStoredChildren ==
    (\A t \in Tasks : task[t].op = "idle") =>
        \A v \in dbVaccinations : \E c \in dbChildren : c.id = v.childId

\* the ids of the children of the list
IdsOf(chs) == {chs[i].id : i \in DOMAIN chs}

\* C33: a save is taken up for the child whose rows the modal shows, and a
\* deleteChild that completes takes out of the list the child it deleted from
\* the store and no other
C33_IndexHitsIntendedChild ==
    [][\A t \in Tasks :
          /\ (task[t].op = "idle" /\ task'[t].op = "save")
                => task'[t].childKey = immunizationModal.childKey
          /\ (DeleteEnds(t) /\ used'.failures = used.failures)
                => IdsOf(children') = IdsOf(children) \ {task[t].childId}]_vars

(***************************************************************************)
(* Registration (SpecRegister): submissions that may overlap each other    *)
(* and a deleteChild.                                                      *)
(***************************************************************************)
RegisterBounds == [names |-> Names, regs |-> RegisterRegs, saves |-> 0,
                   deletes |-> RegisterDeletes, backups |-> 0,
                   failures |-> RegisterFailures, overlappingSaves |-> FALSE,
                   vaccines |-> {}, rows |-> {}, dates |-> {}]

NextRegister ==
    \/ Register(RegisterBounds)
    \/ AwaitRegAdd(RegisterBounds)
    \/ Delete(RegisterBounds)
    \/ AwaitDeleteTransaction(RegisterBounds)

SpecRegister == Init /\ [][NextRegister]_vars

\* C6: every stored child's regNo has the form ddd/dddd, and no two stored
\* children created in the same year have the same regNo.
C6_RegNoWellFormedAndUnique ==
    /\ \A c \in dbChildren : MatchesRegNoFormat(c.regNo)
    /\ \A c, d \in dbChildren :
          (/\ c.id # d.id
           /\ getFullYear(NewDate(c.createdAt)) = getFullYear(NewDate(d.createdAt)))
          => c.regNo # d.regNo

\* slot t takes up a registration in this step: the submission passed the
\* validation of the handler
RegistrationAccepted(t) ==
    /\ task[t].op = "idle"
    /\ task'[t].op = "register"

\* C7: a submission whose name equals, ignoring case, the name of a child in
\* the store is rejected: it is not taken up and store and list stay as they
\* are.
C7_DuplicateNameRejected ==
    [][\A t \in Tasks :
          RegistrationAccepted(t) =>
              \A c \in dbChildren :
                  toLowerCase(c.name) # toLowerCase(task'[t].record.name)]_vars

(***************************************************************************)
(* The validation of saveImmunization (SpecSave).                          *)
(***************************************************************************)
\* a row with a date given that lacks a batch number, place given or remarks
Incomplete(row) ==
    /\ row.dateGiven # NoDate
    /\ "" \in {row.batchNumber, row.placeGiven, row.remarks}

MandatoryMessage ==
    Notify("error",
           "Batch Number, Place Given, and Remarks are mandatory when Date Given is selected.")

\* C25: while a row of the modal is incomplete no save is taken up, and the step
\* that shows the validation error leaves the stored doses, the stored and
\* in-memory children (their isDefaulter flags included) and the unsaved dates
\* as they were and starts no handler
C25_IncompleteRowRejected ==
    [][/\ (\E v \in Vaccines : Incomplete(immunizationModal.rows[v])) =>
              \A t \in Tasks : ~(task[t].op = "idle" /\ task'[t].op = "save")
       /\ (notification # MandatoryMessage /\ notification' = MandatoryMessage) =>
              /\ \E v \in Vaccines : Incomplete(immunizationModal.rows[v])
              /\ UNCHANGED <<dbVaccinations, dbChildren, children,
                             unsavedVaccinations, task>>]_vars

\* a save has been rejected for a child that is a defaulter with a stored
\* booking, while the date typed into the incomplete row is in the buffer
C25_Witness ==
    /\ notification = MandatoryMessage
    /\ \E v \in Vaccines : Incomplete(immunizationModal.rows[v])
    /\ unsavedVaccinations # {}
    /\ \E c \in dbChildren : c.isDefaulter /\ DosesOf(c.id) # {}
    /\ \A t \in Tasks : task[t].op = "idle"

\* C30: when a save that no other handler overlapped completes, every visit
\* that was booked for the child when the save was called, for a vaccine not
\* given then, is still stored with its date unless the vaccine is now stored
\* as given; and while an overdue one of them is still to be given the child
\* is a defaulter in the list
C30_BookingSurvivesLaterSaves ==
    [][\A t \in Tasks :
          (SaveCompletes(t) /\ task[t].alone) =>
              \A v \in task[t].prior :
                  IsBooked(v) =>
                      LET after == DosesIn(dbVaccinations', task[t].childId)
                          given == \E w \in after :
                                      w.vaccine = v.vaccine /\ w.dateGiven # NoDate
                          kept == \E w \in after :
                                     w.vaccine = v.vaccine /\ w.nextVisit = v.nextVisit
                      IN /\ given \/ kept
                         /\ (~given /\ DateMs(v.nextVisit) < now) =>
                               \E i \in DOMAIN children' :
                                   /\ children'[i].id = task[t].childId
                                   /\ children'[i].isDefaulter]_vars

\* C31: while no save is in flight the store holds at most one dose record for
\* a child and a vaccine
C31_OneRecordPerVaccine ==
    (\A t \in Tasks : task[t].op # "save") =>
        \A v, w \in dbVaccinations :
            (v.childId = w.childId /\ v.vaccine = w.vaccine) => v = w

(***************************************************************************)
(* Dates of birth (SpecBirth): children born yesterday, today and tomorrow *)
(* are submitted, at midnight and later in the day.                        *)
(***************************************************************************)
BirthBounds == [names |-> {"amy", "bob"}, regs |-> BirthRegs,
                dobs |-> {Today - 1, Today, Today + 1}, failures |-> BirthFailures]

\* the state initApp leaves on an empty database, at some time of today
InitBirth ==
    /\ InitStore
    /\ InitUi
    /\ InitAccounts
    /\ task = [t \in Tasks |-> Idle]
    /\ notification = Notify("success", "App loaded successfully!")
    /\ children = <<>>
    /\ now \in DateMs(Today)..(DateMs(Today + 1) - 1)
    /\ statsCounters = updateStats(children, now)
    /\ defaultersTable = updateDefaultersTable(children, now)
    /\ dueSoonTable = updateDueSoonTable(children, now)
    /\ upcomingTable = updateUpcomingTable(children, now)
    /\ childTable = updateChildTable(children)

NextBirth ==
    \/ Register(BirthBounds)
    \/ AwaitRegAdd(BirthBounds)

SpecBirth == InitBirth /\ [][NextBirth]_vars

\* the calendar day of an instant
DayOf(instant) == CHOOSE d \in 0..(instant + 1) : DateMs(d) <= instant /\ instant < DateMs(d + 1)

\* C24: a submission is taken up only if its date of birth is not later than
\* today, and taking it up stores nothing; every child a step stores has a
\* date of birth not after the day of its creation and isDefaulter false, and
\* is put in front of the in-memory list with the same date of birth,
\* isDefaulter false and an empty dose list
C24_ChildCreatedWithValidDob ==
    [][/\ \A t \in Tasks :
              RegistrationAccepted(t) =>
                  /\ task'[t].record.dob <= DayOf(now)
                  /\ UNCHANGED <<dbChildren, children>>
       /\ \A c \in dbChildren' \ dbChildren :
              /\ c.dob <= DayOf(NewDate(c.createdAt))
              /\ c.isDefaulter = FALSE
              /\ Len(children') = Len(children) + 1
              /\ children'[1].id = c.id
              /\ children'[1].name = c.name
              /\ children'[1].dob = c.dob
              /\ children'[1].isDefaulter = FALSE
              /\ children'[1].vaccinations = <<>>]_vars

\* a child born today is stored, and then a submission of a child born
\* tomorrow has been turned down
C24_Witness ==
    /\ notification = Notify("error", "Date of Birth cannot be in the future.")
    /\ \E c \in dbChildren : c.dob = Today /\ c.isDefaulter = FALSE
    /\ \A c \in dbChildren : c.dob <= Today
    /\ Len(children) = Cardinality(dbChildren)

(***************************************************************************)
(* The summary views (SpecStats): initApp has loaded some stored children  *)
(* and their doses and is about to render the views.                       *)
(***************************************************************************)
\* the list initApp builds: every stored child with its stored doses
LoadChildren(storedChildren, storedVaccinations) ==
    LET loaded == NewestFirst(storedChildren)
    IN [i \in DOMAIN loaded |->
           [vaccinations |-> SortById(DosesIn(storedVaccinations, loaded[i].id))]
           @@ loaded[i]]

\* how far from today a booked visit may lie
StatsOffsets == {-1, 0, 3, 7, 8, 15, 30, 31, 45}

\* what may be stored for one vaccine of one child: nothing, a given dose, or a
\* visit booked for some day
DoseChoices ==
    {[kind |-> "none", day |-> NoDate], [kind |-> "given", day |-> NoDate]}
    \cup {[kind |-> "booked", day |-> Today + o] : o \in StatsOffsets}

\* the stored records of a choice: child k of n, vaccine number j
StoredDoses(n, choice) ==
    {[id |-> (k - 1) * NumVaccines + j] @@
        (IF choice[k][j].kind = "given"
         THEN RowRecord(k, vaccinationSchedule[j], FullRow)
         ELSE BookedRecord(k, vaccinationSchedule[j], choice[k][j].day)) :
        <<k, j>> \in {kj \in (1..n) \X (1..NumVaccines) :
                         choice[kj[1]][kj[2]].kind # "none"}}

\* children registered one after the other get the regNos 001, 002, ...; two
\* whose submissions overlapped both get the regNo of the first
StoredChildren(n, sameRegNo) ==
    {[id |-> k,
      regNo |-> RegNoOf(IF sameRegNo THEN 1 ELSE k, BaseYear),
      name |-> IF k = 1 THEN "amy" ELSE IF k = 2 THEN "bob" ELSE "Amy",
      isDefaulter |-> FALSE,
      createdAt |-> k] : k \in 1..n}

\* initApp after its last await, before it renders
InitStats ==
    /\ InitUi
    /\ InitAccounts
    /\ task = [t \in Tasks |-> IF t = 1 THEN [op |-> "initApp", pc |-> "render"] ELSE Idle]
    /\ notification = Notify("none", "")
    /\ \E n \in 1..StatsChildren, sameRegNo \in BOOLEAN :
       \E choice \in [1..n -> [1..NumVaccines -> DoseChoices]] :
          /\ dbChildren = StoredChildren(n, sameRegNo)
          /\ dbVaccinations = StoredDoses(n, choice)
          /\ nextChildId = n + 1
          /\ nextVaccId = n * NumVaccines + 1
    /\ dbFacility = {}
    /\ children = LoadChildren(dbChildren, dbVaccinations)
    /\ now \in {DateMs(Today) + k : k \in 0..(TicksPerDay - 1)}
    /\ statsCounters = updateStats(<<>>, now)
    /\ defaultersTable = <<>>
    /\ dueSoonTable = <<>>
    /\ upcomingTable = <<>>
    /\ childTable = <<>>

\* the tail of initApp: updateStats(); updateAllTables(); showNotification(...)
RenderViews ==
    /\ task[1].op = "initApp"
    /\ RefreshStats(children)
    /\ updateAllTables(children)
    /\ RenderChildTable(children)
    /\ notification' = Notify("success", "App loaded successfully!")
    /\ task' = [task EXCEPT ![1] = Idle]
    /\ UNCHANGED <<storeVars, children, unsavedVaccinations, modalVars, backupFile,
                   issued, now, restVars, used>>

NextStats == RenderViews

SpecStats == InitStats /\ [][NextStats]_vars

\* initApp has rendered the views
Loaded == \A t \in Tasks : task[t].op = "idle"

Buckets == {"defaulters", "dueSoon", "upcoming"}

\* the rendered table of a bucket
TableOf(bucket) ==
    CASE bucket = "defaulters" -> defaultersTable
      [] bucket = "dueSoon" -> dueSoonTable
      [] bucket = "upcoming" -> upcomingTable

\* the rendered counter of a bucket
CounterOf(bucket) ==
    CASE bucket = "defaulters" -> statsCounters.totalDefaulters
      [] bucket = "dueSoon" -> statsCounters.totalDueSoon
      [] bucket = "upcoming" -> statsCounters.totalUpcoming

\* how many rows of the table stand for children[i]
RowsFor(table, i) == Cardinality({r \in DOMAIN table : table[r].index = i - 1})

\* children[i] has a dose the table of the bucket takes
HasDose(i, bucket) ==
    \E v \in Range(children[i].vaccinations) : Qualifies(bucket, v, now)

\* C8: a child with an overdue dose and a due-soon dose has one row in the
\* defaulters table and none in the other two tables, and the due-soon and
\* upcoming counters do not count it: neither exceeds the number of the other
\* children.
C8_BucketsMutuallyExclusive ==
    Loaded =>
        \A i \in DOMAIN children :
            (HasDose(i, "defaulters") /\ HasDose(i, "dueSoon")) =>
                /\ RowsFor(defaultersTable, i) = 1
                /\ RowsFor(dueSoonTable, i) = 0
                /\ RowsFor(upcomingTable, i) = 0
                /\ statsCounters.totalDueSoon <= Len(children) - 1
                /\ statsCounters.totalUpcoming <= Len(children) - 1

\* C9: in each bucket the table has exactly one row for every child of the list
\* with a qualifying dose and none for any other child, and the counter is the
\* number of children with a dose the counter qualifies.
C9_EachChildCountedOnce ==
    Loaded =>
        \A bucket \in Buckets :
            /\ \A i \in DOMAIN children :
                  RowsFor(TableOf(bucket), i) = IF HasDose(i, bucket) THEN 1 ELSE 0
            /\ CounterOf(bucket) =
                  Cardinality({i \in DOMAIN children :
                                  \E v \in Range(children[i].vaccinations) :
                                      StatsQualifies(bucket, v, now)})

\* C10: for a list of one child whose only dose is a booked visit, counter and
\* table of a bucket both show the child exactly when the visit lies in the
\* window of the bucket: before now; 0 < daysUntil <= 7; 7 < daysUntil <= 30.
C10_WindowsOfCountersAndTables ==
    (/\ Loaded
     /\ Len(children) = 1
     /\ Len(children[1].vaccinations) = 1
     /\ IsBooked(children[1].vaccinations[1]))
    => LET nextVisit == children[1].vaccinations[1].nextVisit
           days == daysUntil(nextVisit, now)
           inWindow == [defaulters |-> DateMs(nextVisit) < now,
                        dueSoon |-> 0 < days /\ days <= 7,
                        upcoming |-> 7 < days /\ days <= 30]
       IN \A bucket \in Buckets :
             /\ CounterOf(bucket) = IF inWindow[bucket] THEN 1 ELSE 0
             /\ Len(TableOf(bucket)) = IF inWindow[bucket] THEN 1 ELSE 0

(***************************************************************************)
(* The search box (SpecSearch): two children, the table filtered by a      *)
(* search term, and the buttons of its rows pressed while no handler is in *)
(* flight.                                                                 *)
(***************************************************************************)
\* what the user may type into #search
SearchTerms == {<<>>, <<"A">>, <<"b">>, <<"0", "0", "2">>, <<"z">>}

SearchBounds == [names |-> {"amy", "bob"}, regs |-> SearchRegs,
                 deletes |-> SearchDeletes, failures |-> SearchFailures]

Search == \E value \in SearchTerms : filterChildren(value)

\* the Update button of a row
UpdateFromRow == \E r \in DOMAIN childTable : openImmunizationModal(childTable[r].index)

\* the Edit button of a row
EditFromRow == \E r \in DOMAIN childTable : openEditChildModal(childTable[r].index)

\* the Delete button of a row, confirmed
DeleteFromRow(b) ==
    \E t \in Tasks, r \in DOMAIN childTable :
        used.deletes < b.deletes /\ DeleteStart(t, childTable[r].index)

NextSearch ==
    \/ Usable /\ Register(SearchBounds)
    \/ AwaitRegAdd(SearchBounds)
    \/ Search
    \/ Usable /\ UpdateFromRow
    \/ Usable /\ closeModal
    \/ Usable /\ EditFromRow
    \/ Usable /\ DeleteFromRow(SearchBounds)
    \/ AwaitDeleteTransaction(SearchBounds)

SpecSearch == Init /\ [][NextSearch]_vars

\* C34: the position the buttons of a row of the child table carry is the
\* position, in the full children list, of the child the row shows
C34_RowIndexIsChildIndex ==
    \A r \in DOMAIN childTable :
        /\ childTable[r].index < Len(children)
        /\ children[childTable[r].index + 1].id = childTable[r].child

(***************************************************************************)
(* The mirror (SpecEdit): children registered, edited and deleted, the     *)
(* handlers overlapping as they may.                                       *)
(***************************************************************************)
EditBounds == [names |-> {"amy", "bob"}, regs |-> EditRegs, edits |-> EditEdits,
               deletes |-> EditDeletes, failures |-> EditFailures]

\* the form of the edit modal is saved with another name and date of birth
SaveEdited(b) ==
    \E t \in Tasks :
        used.edits < b.edits /\ EditSubmit(t, "Amy", Today - 2)

AwaitEditUpdate(b) ==
    \E t \in Tasks, fails \in BOOLEAN : Outcome(b, fails) /\ EditUpdate(t, fails)

NextEdit ==
    \/ Register(EditBounds)
    \/ AwaitRegAdd(EditBounds)
    \/ EditFromRow
    \/ SaveEdited(EditBounds)
    \/ AwaitEditUpdate(EditBounds)
    \/ DeleteFromRow(EditBounds)
    \/ AwaitDeleteTransaction(EditBounds)

SpecEdit == Init /\ [][NextEdit]_vars

\* C35: once every handler has ended, the list holds the children of the store
\* and no other, each with the regNo, name, dob and isDefaulter of its stored
\* record
C35_MirrorAgreesWithStore ==
    (\A t \in Tasks : task[t].op = "idle") =>
        /\ IdsOf(children) = {c.id : c \in dbChildren}
        /\ \A i \in DOMAIN children :
               \A c \in dbChildren :
                   c.id = children[i].id =>
                       /\ c.regNo = children[i].regNo
                       /\ c.name = children[i].name
                       /\ c.dob = children[i].dob
                       /\ c.isDefaulter = children[i].isDefaulter

(***************************************************************************)
(* Registration numbers after deletions (SpecReuse): children registered   *)
(* and deleted within one year, one handler at a time.                     *)
(***************************************************************************)
ReuseBounds == [names |-> Names, regs |-> ReuseRegs, deletes |-> ReuseDeletes,
                failures |-> ReuseFailures]

NextReuse ==
    \/ Usable /\ Register(ReuseBounds)
    \/ AwaitRegAdd(ReuseBounds)
    \/ Usable /\ DeleteFromRow(ReuseBounds)
    \/ AwaitDeleteTransaction(ReuseBounds)

SpecReuse == Init /\ [][NextReuse]_vars

\* C36: the regNo a registration is taken up with is the regNo of no child
\* stored before, deleted since or not
C36_RegNoNeverReused ==
    [][\A t \in Tasks :
          RegistrationAccepted(t) => task'[t].record.regNo \notin history.regNos]_vars

(***************************************************************************)
(* Registration numbers (SpecRegNo): a register that holds children of     *)
(* this year and of last year, some of them deleted since, and children    *)
(* registered into it.                                                     *)
(***************************************************************************)
\* an instant of day `day` of the year
InYear(year, day) == (year - BaseYear) * DaysPerYear * TicksPerDay + DateMs(day) + 1

\* child k of the register: registered in `year` as number seq of that year
RegisteredChild(k, seq, year) ==
    [id |-> k,
     regNo |-> RegNoOf(seq, year),
     name |-> IF k = 1 THEN "cat" ELSE IF k = 2 THEN "dan" ELSE IF k = 3 THEN "eve" ELSE "fay",
     dob |-> Today - 1,
     isDefaulter |-> FALSE,
     createdAt |-> InYear(year, k)]

\* initApp has loaded a register of up to RegNoChildren children, none of them
\* registered after the current year
InitRegNo ==
    /\ InitUi
    /\ InitAccounts
    /\ task = [t \in Tasks |-> Idle]
    /\ notification = Notify("success", "App loaded successfully!")
    /\ \E thisYear \in {BaseYear, BaseYear + 1}, n \in 0..RegNoChildren :
       \E choice \in [1..n -> (1..RegNoChildren) \X (BaseYear..thisYear)] :
          /\ now = InYear(thisYear, Today)
          /\ dbChildren = {RegisteredChild(k, choice[k][1], choice[k][2]) : k \in 1..n}
          /\ nextChildId = RegNoChildren + 1
    /\ dbVaccinations = {}
    /\ dbFacility = {}
    /\ nextVaccId = 1
    /\ children = LoadChildren(dbChildren, dbVaccinations)
    /\ statsCounters = updateStats(children, now)
    /\ defaultersTable = updateDefaultersTable(children, now)
    /\ dueSoonTable = updateDueSoonTable(children, now)
    /\ upcomingTable = updateUpcomingTable(children, now)
    /\ childTable = updateChildTable(children)

RegNoBounds == [names |-> {"amy", "bob"}, regs |-> RegNoRegs, failures |-> RegNoFailures]

NextRegNo ==
    \/ Register(RegNoBounds)
    \/ AwaitRegAdd(RegNoBounds)

SpecRegNo == InitRegNo /\ [][NextRegNo]_vars

\* the regNos of the list
RegNosOf(chs) == {chs[i].regNo : i \in DOMAIN chs}

\* how many children of the list were created in the year
CreatedIn(chs, year) ==
    Cardinality({i \in DOMAIN chs : getFullYear(NewDate(chs[i].createdAt)) = year})

\* C29: the regNo a registration is taken up with is no regNo of the list; it
\* is number k of the current year for some k above the number of children
\* created this year, every number between that and k being the regNo of a
\* child; and it is 001 of the year when no child was created this year and
\* none has that regNo
C29_RegNoFirstUnused ==
    [][\A t \in Tasks :
          RegistrationAccepted(t) =>
              LET regNo == task'[t].record.regNo
                  year == getFullYear(now)
                  first == CreatedIn(children, year) + 1
              IN /\ regNo \notin RegNosOf(children)
                 /\ \E k \in first..(first + Len(children)) :
                       /\ regNo = RegNoOf(k, year)
                       /\ \A j \in first..(k - 1) :
                             RegNoOf(j, year) \in RegNosOf(children)
                 /\ (first = 1 /\ RegNoOf(1, year) \notin RegNosOf(children))
                       => regNo = RegNoOf(1, year)]_vars

\* a registration is in flight, alone, whose first candidate was the regNo of
\* a child of the list: it has a later number that no child has
C29_Witness ==
    \E t \in Tasks :
        /\ task[t].op = "register"
        /\ \A u \in Tasks \ {t} : task[u].op = "idle"
        /\ RegNoOf(CreatedIn(children, getFullYear(now)) + 1, getFullYear(now))
              \in RegNosOf(children)
        /\ task[t].record.regNo \notin RegNosOf(children)

\* the first registration of a new year is in flight with 001 of the new year,
\* in a register that holds children of the year before
C29_WitnessNewYear ==
    \E t \in Tasks :
        /\ task[t].op = "register"
        /\ children # <<>>
        /\ CreatedIn(children, BaseYear + 1) = 0
        /\ task[t].record.regNo = RegNoOf(1, BaseYear + 1)

\* C28: a child none of whose visits was booked for a day before the current
\* calendar day is no defaulter at any time of the day: it has no row in the
\* defaulters table, updateDefaulterStatus gives false for it, and a list of
\* this child alone has a defaulters counter of 0
C28_DueTodayNotOverdue ==
    Loaded =>
        \A i \in DOMAIN children :
            (\A v \in Range(children[i].vaccinations) :
                 v.nextVisit # NoDate => v.nextVisit >= DayOf(now))
            => /\ RowsFor(defaultersTable, i) = 0
               /\ ~updateDefaulterStatus(children[i].vaccinations, now)
               /\ Len(children) = 1 => statsCounters.totalDefaulters = 0

\* the doses of children[i] the table of the bucket takes, in list order
QualifyingDoses(i, bucket) ==
    SelectSeq(children[i].vaccinations, LAMBDA v : Qualifies(bucket, v, now))

\* C27: the dose a row of the three tables features is, among the doses of its
\* child that qualify for the table, the first in list order of those with the
\* earliest nextVisit
C27_FeaturedDoseIsFirstEarliest ==
    Loaded =>
        \A bucket \in Buckets :
            \A r \in DOMAIN TableOf(bucket) :
                LET row == TableOf(bucket)[r]
                    doses == QualifyingDoses(row.index + 1, bucket)
                IN \E k \in DOMAIN doses :
                      /\ doses[k].vaccine = row.vaccine
                      /\ doses[k].nextVisit = row.nextVisit
                      /\ \A j \in DOMAIN doses :
                            /\ doses[j].nextVisit >= doses[k].nextVisit
                            /\ j < k => doses[j].nextVisit > doses[k].nextVisit

====
